---- MODULE Spec2Model ----
(***************************************************************************)
(* Model of the bash computer-use agent: the command validation pipeline   *)
(* (src/src/config.ts, src/src/bash.ts), the execution engine with its     *)
(* working-directory tracking (src/src/bash.ts), the conversation state    *)
(* manager (src/src/messages.ts) and the turn loop (src/src/types.ts).    *)
(*                                                                         *)
(* Command strings are TLA+ strings; a character is a string of length 1   *)
(* obtained with SubSeq.  Regular expressions of the source are            *)
(* transliterated item by item and matched by MatchFrom.                   *)
(***************************************************************************)
EXTENDS Integers, Sequences, FiniteSets, TLC

-----------------------------------------------------------------------------
(* Strings                                                                 *)

\* The backtick character (it cannot be written inside a string literal).
BT == SubSeq("`'", 1, 1)

Ch(s, i) == SubSeq(s, i, i)

Lower == {"a","b","c","d","e","f","g","h","i","j","k","l","m",
          "n","o","p","q","r","s","t","u","v","w","x","y","z"}
Upper == {"A","B","C","D","E","F","G","H","I","J","K","L","M",
          "N","O","P","Q","R","S","T","U","V","W","X","Y","Z"}
Digit == {"0","1","2","3","4","5","6","7","8","9"}

\* \w of a JavaScript regular expression
WordChar == Lower \cup Upper \cup Digit \cup {"_"}

\* \s of a JavaScript regular expression, and the characters trim() strips
Space == {" ", "\t", "\n", "\r", "\f"}

SetMin(S) == CHOOSE m \in S : \A n \in S : m <= n
SetMax(S) == CHOOSE m \in S : \A n \in S : m >= n

\* String.prototype.trim
Trim(s) ==
  LET keep == {i \in 1..Len(s) : Ch(s, i) \notin Space}
  IN  IF keep = {} THEN "" ELSE SubSeq(s, SetMin(keep), SetMax(keep))

\* String.prototype.startsWith
StartsWith(s, p) == Len(p) <= Len(s) /\ SubSeq(s, 1, Len(p)) = p

\* String.prototype.indexOf, 1-based; 0 when sub does not occur at or after from
IndexOf(s, sub, from) ==
  LET hits == {i \in from..(Len(s) - Len(sub) + 1) : SubSeq(s, i, i + Len(sub) - 1) = sub}
  IN  IF hits = {} THEN 0 ELSE SetMin(hits)

\* String.prototype.includes
Includes(s, sub) == IndexOf(s, sub, 1) # 0

RECURSIVE toLowerCase(_)
\* String.prototype.toLowerCase, for the letters A-Z
toLowerCase(s) ==
  IF s = "" THEN ""
  ELSE LET c == Ch(s, 1)
           k == IndexOf("ABCDEFGHIJKLMNOPQRSTUVWXYZ", c, 1)
       IN  (IF k = 0 THEN c ELSE Ch("abcdefghijklmnopqrstuvwxyz", k))
             \o toLowerCase(SubSeq(s, 2, Len(s)))

-----------------------------------------------------------------------------
(* Regular expressions                                                     *)

\* items of a pattern
Lit(str)    == [t |-> "lit", str |-> str]                       \* literal text
One(set)    == [t |-> "cls", set |-> set, neg |-> FALSE, min |-> 1, max |-> 1]
NotOne(set) == [t |-> "cls", set |-> set, neg |-> TRUE,  min |-> 1, max |-> 1]
Star(set)   == [t |-> "cls", set |-> set, neg |-> FALSE, min |-> 0, max |-> -1]
Plus(set)   == [t |-> "cls", set |-> set, neg |-> FALSE, min |-> 1, max |-> -1]
NotStar(set) == [t |-> "cls", set |-> set, neg |-> TRUE, min |-> 0, max |-> -1]
Alt(opts)   == [t |-> "alt", opts |-> opts]                     \* (a|b|c) of literals
WB          == [t |-> "wb"]                                     \* \b
EOS         == [t |-> "eos"]                                    \* $ (no m flag)

\* a word: \bw\b
Word(w) == <<WB, Lit(w), WB>>

IsWordAt(s, i) == i >= 1 /\ i <= Len(s) /\ Ch(s, i) \in WordChar

InCls(it, c) == IF it.neg THEN c \notin it.set ELSE c \in it.set

LitAt(s, i, str) == i + Len(str) - 1 <= Len(s) /\ SubSeq(s, i, i + Len(str) - 1) = str

RECURSIVE MatchFrom(_, _, _, _)
\* does re[k..] match s starting with the character at index i
MatchFrom(re, k, s, i) ==
  IF k > Len(re) THEN TRUE
  ELSE LET it == re[k] IN
    CASE it.t = "lit" -> LitAt(s, i, it.str) /\ MatchFrom(re, k + 1, s, i + Len(it.str))
      [] it.t = "alt" -> \E o \in it.opts : LitAt(s, i, o) /\ MatchFrom(re, k + 1, s, i + Len(o))
      [] it.t = "wb"  -> (IsWordAt(s, i - 1) # IsWordAt(s, i)) /\ MatchFrom(re, k + 1, s, i)
      [] it.t = "eos" -> i = Len(s) + 1 /\ MatchFrom(re, k + 1, s, i)
      [] it.t = "cls" ->
           \E n \in it.min..(IF it.max = -1 THEN Len(s) - i + 1 ELSE it.max) :
              /\ i + n - 1 <= Len(s)
              /\ \A j \in i..(i + n - 1) : InCls(it, Ch(s, j))
              /\ MatchFrom(re, k + 1, s, i + n)

\* RegExp.prototype.test (patterns without the g flag): a match at any position
Test(re, s) == \E i \in 1..(Len(s) + 1) : MatchFrom(re, 1, s, i)

-----------------------------------------------------------------------------
(* Pattern policy: src/src/bash.ts INJECTION_PATTERNS, src/src/config.ts   *)

INJECTION_PATTERNS == <<
  << Lit("$"), NotOne(Lower \cup Upper \cup {"_"}) >>,        \* /\$[^a-zA-Z_]/
  << Lit(BT), NotStar({BT}), Lit(BT) >>,                      \* backtick ... backtick
  << Lit("$("), NotStar({")"}), Lit(")") >>,                  \* /\$\([^)]*\)/
  << Lit("${"), NotStar({"}"}), Lit("}") >>,                  \* /\$\{[^}]*\}/
  << Lit("<"), NotStar({">"}), Lit(">") >>,                   \* /<[^>]*>/
  << NotOne({"\\"}), Lit("|"), NotOne({"|"}) >>,              \* /[^\\]\|[^|]/
  << Lit("&&") >>,                                            \* /&&/
  << Lit("||") >>,                                            \* /\|\|/
  << Lit(";") >>,                                             \* /;/
  << Lit("&"), NotOne({"&"}) >>,                              \* /&[^&]/
  << Lit(">>") >>,                                            \* />>/
  << Lit(">"), NotOne({">"}) >>                               \* />[^>]/
>>

\* src/src/config.ts holds two versions of the configuration one after the
\* other; the definitions here follow the first (lines 1-443), in which
\* allowPipesAndRedirects is true.
DEFAULT_ALLOWED_COMMANDS == {
  "cd", "cp", "ls", "cat", "find", "touch", "echo", "grep", "pwd", "mkdir",
  "sort", "head", "tail", "du", "wc", "which", "whereis", "file", "less", "more",
  "tee", "nl", "pr", "expand", "fmt", "fold",
  "dirs", "pushd", "popd", "tree",
  "open",
  "curl", "wget", "ping", "nslookup", "dig", "netstat",
  "sed", "awk", "tr", "cut", "uniq", "xargs", "paste", "join",
  "jq", "yq",
  "date", "whoami", "uname", "df", "ps", "top", "uptime", "free", "lsof",
  "env", "printenv", "id", "groups", "last", "w",
  "python", "python3", "pip", "pip3", "node", "npm", "yarn", "pnpm",
  "npx", "yarn dlx", "pnpm dlx",
  "git", "gh", "svn", "hg",
  "git log", "git status", "git diff", "git show", "git blame",
  "tar", "zip", "unzip", "gzip", "gunzip", "bzip2", "bunzip2",
  "htop", "pgrep", "pidof",
  "pstree", "jobs", "fg", "bg",
  "ls -l", "stat", "getfacl", "lsattr",
  "locate", "grep -r", "rg", "ag",
  "iostat", "vmstat", "sar", "sysctl",
  ">", ">>", "<", "2>", "2>>", "&>", "&>>",
  "|", "&&", "||",
  "mktemp", "tempfile", "with-tempfile" }

\* the line terminators, which "." does not match
Newline == {"\n", "\r"}

blockedPatterns == <<
  << One({BT, "$", "\\", "(", ")"}) >>,
  Word("rm"),
  << WB, Lit("rm"), Plus(Space) >>,
  Word("mv"),
  << WB, Lit("cp"), WB, NotStar(Newline), Lit("/") >>,
  Word("sudo"),
  Word("su"),
  Word("doas"),
  << WB, Lit("chmod"), Plus(Space), One(Digit) >>,
  Word("chown"),
  Word("chgrp"),
  Word("rmdir"),
  Word("shutdown"),
  Word("reboot"),
  Word("halt"),
  Word("poweroff"),
  Word("useradd"),
  Word("userdel"),
  Word("usermod"),
  Word("groupadd"),
  Word("groupdel"),
  Word("passwd"),
  Word("kill"),
  Word("killall"),
  Word("pkill"),
  Word("mkfs"),
  Word("format"),
  Word("fdisk"),
  Word("dd"),
  Word("shred"),
  Word("wipe"),
  Word("systemctl"),
  Word("service"),
  Word("init"),
  << WB, Lit("rc.") >>,
  << Lit(">/etc/") >>,
  << Lit(">>/etc/") >>,
  << Lit(">/boot/") >>,
  << Lit(">/usr/") >>,
  << Lit(">/bin/") >>,
  << Lit(">/sbin/") >>,
  << Lit(">/lib/") >>,
  << Lit(">/lib64/") >>,
  << WB, Lit("pip"), Plus(Space), Lit("install") >>,
  << WB, Lit("npm"), Plus(Space), Lit("install"), Plus(Space), Lit("-g") >>,
  << WB, Lit("yarn"), Plus(Space), Lit("global") >>,
  << WB, Lit("gem"), Plus(Space), Lit("install") >>,
  << WB, Lit("go"), Plus(Space), Lit("install") >>,
  << WB, Lit("cargo"), Plus(Space), Lit("install") >>,
  << WB, Lit("brew"), Plus(Space), Lit("install") >>,
  << WB, Lit("apt-get"), Plus(Space), Lit("install") >>,
  << WB, Lit("yum"), Plus(Space), Lit("install") >>,
  << WB, Lit("dnf"), Plus(Space), Lit("install") >>,
  << WB, Lit("pacman"), Plus(Space), Lit("-S") >>,
  << WB, Lit("apt"), Plus(Space), Lit("install") >>,
  << WB, Lit("docker"), Plus(Space), Alt({"exec", "run", "rm", "stop", "kill"}) >>,
  << WB, Lit("kubectl"), Plus(Space), Alt({"delete", "exec", "apply"}) >>,
  << WB, Lit("helm"), Plus(Space), Alt({"delete", "install", "upgrade"}) >>,
  Word("crontab"),
  Word("at"),
  Word("iptables"),
  Word("ufw"),
  Word("firewall-cmd"),
  << Lit(":"), Alt({"22", "23", "25", "53", "135", "139", "445", "993", "995"}), WB >>,
  << Lit(">"), Star(Space), Lit("/"), Alt({"dev", "proc", "sys"}) >>,
  << Lit(">>"), Star(Space), Lit("/"), Alt({"dev", "proc", "sys"}) >>,
  << Lit("&"), Star(Space), EOS >>,
  << Lit(";"), Star(Space), EOS >>
>>

allowPipesAndRedirects == TRUE

commandTimeout == 30000

\* command.trim().split(/\s+/)[0]
BaseCommand(command) ==
  LET t  == Trim(command)
      sp == {i \in 1..Len(t) : Ch(t, i) \in Space}
  IN  IF sp = {} THEN t ELSE SubSeq(t, 1, SetMin(sp) - 1)

\* mutant: the comparison with the allowlist entries is negated
isCommandAllowed_Negated(command) ==
  \E allowed \in DEFAULT_ALLOWED_COMMANDS : allowed # BaseCommand(command)

isCommandAllowed(command) == BaseCommand(command) \in DEFAULT_ALLOWED_COMMANDS

\* mutant: only the first blocklist pattern is tested
hasBlockedPatterns_FirstOnly(command) == Test(blockedPatterns[1], command)

hasBlockedPatterns(command) ==
  \E k \in 1..Len(blockedPatterns) : Test(blockedPatterns[k], command)

\* the rejection messages of the validation pipeline
EmptyCommand     == "Command cannot be empty"
BlockedPattern   == "Command contains blocked patterns"
DisallowedSyntax == "Pipes and redirects are not currently allowed for safety"
InjectionPattern == "Command injection patterns are not allowed."
NotInAllowlist(command) == "Command '" \o BaseCommand(command) \o "' is not in the allowlist"

\* mutant: the blocklist is consulted before the allowlist
validateCommand_BlocklistFirst(command) ==
  IF Trim(command) = "" THEN EmptyCommand
  ELSE IF hasBlockedPatterns(command) THEN BlockedPattern
  ELSE IF ~isCommandAllowed(command) THEN NotInAllowlist(command)
  ELSE IF ~allowPipesAndRedirects /\ Test(<<One({"|", ">"})>>, command) THEN DisallowedSyntax
  ELSE ""

\* Config.validateCommand: the message of the CommandValidationError it
\* throws, or "" when it returns normally
validateCommand(command) ==
  IF Trim(command) = "" THEN EmptyCommand
  ELSE IF ~isCommandAllowed(command) THEN NotInAllowlist(command)
  ELSE IF hasBlockedPatterns(command) THEN BlockedPattern
  ELSE IF ~allowPipesAndRedirects /\ Test(<<One({"|", ">"})>>, command) THEN DisallowedSyntax
  ELSE ""

\* Bash._checkForInjection: TRUE when it throws
_checkForInjection(command) ==
  \E k \in 1..Len(INJECTION_PATTERNS) : Test(INJECTION_PATTERNS[k], command)

-----------------------------------------------------------------------------
(* Environment of the execution engine: directories and process outcomes   *)

\* config.rootDir and os.homedir()
RootDir == "/app"
HomeDir == "/home/u"

\* the directories that exist on the machine
ExistingDirs == {"/app", "/tmp", "/home/u"}

\* an optional value of JavaScript: <<>> is undefined, <<v>> is v
None     == <<>>
Some(v)  == <<v>>

\* What the shell does with a validated command line: it runs to its end
\* ("ran": the command wrote out and err, ended with status st and left the
\* shell in directory dir), is killed by the timeout, or the shell itself
\* exits with a non-zero status before the sentinel (a syntax error).
CommandRuns == {
  [kind |-> "ran", out |-> "a.txt\nb.txt\n", err |-> "", st |-> 0],
  [kind |-> "ran", out |-> "", err |-> "", st |-> 0],
  [kind |-> "ran", out |-> "", err |-> "", st |-> 1],
  [kind |-> "ran", out |-> "", err |-> "cat: missing.txt: No such file or directory\n", st |-> 1],
  [kind |-> "ran", out |-> "  hi \n", err |-> "warning\n", st |-> 0],
  [kind |-> "ran", out |-> "", err |-> "/bin/sh: 1: command not found\n", st |-> 127],
  [kind |-> "ran", out |-> "x__END__y\n", err |-> "", st |-> 0],
  [kind |-> "ran", out |-> "x__END", err |-> "", st |-> 0],
  [kind |-> "timeout", out |-> "", err |-> "", st |-> 0],
  [kind |-> "timeout", out |-> "PING h\n", err |-> "ping: warning\n", st |-> 0],
  [kind |-> "failed", out |-> "", err |-> "/bin/sh: 1: Syntax error: Unterminated quoted string\n", st |-> 2] }

\* the shell builtins (among the allowlisted commands) that move the shell
ChangesDirectory(command) == BaseCommand(command) \in {"cd", "pushd", "popd"}

\* the directory the shell is in when it reaches pwd
DirsAfter(command, cwd, kind) ==
  IF kind # "ran" THEN {""}
  ELSE IF ChangesDirectory(command) THEN ExistingDirs ELSE {cwd}

\* the shell cannot be started; the error execa rejects with has empty
\* strings for the streams or no streams at all, depending on its version
SpawnFailure == [kind |-> "spawnfail", out |-> "", err |-> "", st |-> 0]
SpawnFailureNoStreams == [kind |-> "spawnfail_nostreams", out |-> "", err |-> "", st |-> 0]

\* of the runs of a command, those possible for a shell started in cwd
RunsIn(cwd, runs) ==
  IF cwd \in ExistingDirs THEN runs ELSE {SpawnFailure, SpawnFailureNoStreams}

NoRun == [kind |-> "none", out |-> "", err |-> "", st |-> 0, dir |-> ""]

SENTINEL == "__END__"

NoOutputMessage == "Command executed successfully, without any output."

\* the command line handed to the shell
WrappedCommand(command) == command \o "; echo __END__; pwd"

\* the error execa rejects with when the shell cannot be started (the
\* working directory does not exist)
SpawnError ==
  [resolved |-> FALSE, exitCode |-> None, stdout |-> Some(""), stderr |-> Some(""),
   hasExitCode |-> TRUE, message |-> "Command failed with ENOENT: spawn /bin/sh ENOENT"]

SpawnErrorNoStreams ==
  [resolved |-> FALSE, exitCode |-> None, stdout |-> None, stderr |-> None,
   hasExitCode |-> TRUE, message |-> "Command failed with ENOENT: spawn /bin/sh ENOENT"]

\* execa(wrappedCommand, {shell: true, timeout, stripFinalNewline: false}):
\* it resolves when the shell exits with status 0 -- the status of a list
\* "a; b; c" is the status of c, here of pwd -- and rejects with an error
\* that carries exitCode (undefined for a killed process), stdout and stderr
WrapperProcess(run) ==
  CASE run.kind = "ran" ->
         [resolved |-> TRUE, exitCode |-> Some(0),
          stdout |-> Some(run.out \o SENTINEL \o "\n" \o run.dir \o "\n"),
          stderr |-> Some(run.err), hasExitCode |-> TRUE, message |-> ""]
    [] run.kind = "timeout" ->
         [resolved |-> FALSE, exitCode |-> None,
          stdout |-> Some(run.out), stderr |-> Some(run.err), hasExitCode |-> TRUE,
          message |-> "Command timed out after 30000 milliseconds"]
    [] run.kind = "failed" ->
         [resolved |-> FALSE, exitCode |-> Some(run.st),
          stdout |-> Some(run.out), stderr |-> Some(run.err), hasExitCode |-> TRUE,
          message |-> "Command failed with exit code 2"]
    [] run.kind = "spawnfail" -> SpawnError
    [] run.kind = "spawnfail_nostreams" -> SpawnErrorNoStreams

\* JavaScript: a || b on strings, a ?? b on optional values
OrElse(a, b)      == IF a = "" THEN b ELSE a
Coalesce(opt, b)  == IF opt = None THEN b ELSE opt[1]

\* output.split('__END__')[0] and [1]
Part0(output) ==
  LET i == IndexOf(output, SENTINEL, 1)
  IN  IF i = 0 THEN output ELSE SubSeq(output, 1, i - 1)

Part1(output) ==
  LET i == IndexOf(output, SENTINEL, 1)
  IN  IF i = 0 THEN None
      ELSE LET rest == SubSeq(output, i + Len(SENTINEL), Len(output))
               j    == IndexOf(rest, SENTINEL, 1)
           IN  Some(IF j = 0 THEN rest ELSE SubSeq(rest, 1, j - 1))

Result(stdout, stderr, cwd, exitCode) ==
  [stdout |-> stdout, stderr |-> stderr, cwd |-> cwd, exitCode |-> exitCode]

\* the catch blocks of executeCommandWithWrapper and executeCommand
CatchResult(e, cwd, resultCwd) ==
  IF e.hasExitCode
  THEN Result(Coalesce(e.stdout, ""),
              IF e.stderr # None THEN e.stderr[1] ELSE OrElse(e.message, "Unknown error"),
              resultCwd, Coalesce(e.exitCode, 1))
  ELSE Result("", e.message, cwd, 1)

\* mutant: the directory after the sentinel is reported but not committed
executeCommandWithWrapper_NoCommit(command, cwd, run) ==
  LET p == WrapperProcess(run) IN
  IF p.resolved
  THEN LET output == Coalesce(p.stdout, "")
           part1  == Part1(output)
           newCwd == IF part1 = None THEN cwd ELSE Trim(part1[1])
       IN  [result |-> Result(OrElse(Trim(Part0(output)), NoOutputMessage),
                              Coalesce(p.stderr, ""), newCwd, p.exitCode[1]),
            cwd    |-> cwd]
  ELSE [result |-> CatchResult(p, cwd, cwd), cwd |-> cwd]

\* Bash.executeCommandWithWrapper: the result it returns and the _cwd it leaves
executeCommandWithWrapper(command, cwd, run) ==
  LET p == WrapperProcess(run) IN
  IF p.resolved
  THEN LET output == Coalesce(p.stdout, "")
           stderr == Coalesce(p.stderr, "")
           stdout == Trim(Part0(output))
           part1  == Part1(output)
           newCwd == IF part1 = None THEN cwd ELSE Trim(part1[1])
       IN  [result |-> Result(OrElse(stdout, NoOutputMessage), stderr, newCwd, p.exitCode[1]),
            cwd    |-> newCwd]
  ELSE [result |-> CatchResult(p, cwd, cwd), cwd |-> cwd]

-----------------------------------------------------------------------------
(* Directory-change path: src/src/bash.ts handleCdCommand and helpers       *)

\* path.isAbsolute (POSIX)
isAbsolute(path) == StartsWith(path, "/")

RECURSIVE SplitSlash(_)
\* path.split('/')
SplitSlash(path) ==
  LET i == IndexOf(path, "/", 1)
  IN  IF i = 0 THEN <<path>>
      ELSE <<SubSeq(path, 1, i - 1)>> \o SplitSlash(SubSeq(path, i + 1, Len(path)))

RECURSIVE NormalizeSegments(_, _)
\* drop "" and ".", let ".." remove the segment before it
NormalizeSegments(segs, acc) ==
  IF segs = <<>> THEN acc
  ELSE LET h == Head(segs) IN
       IF h = "" \/ h = "." THEN NormalizeSegments(Tail(segs), acc)
       ELSE IF h = ".." THEN NormalizeSegments(Tail(segs),
                               IF acc = <<>> THEN acc ELSE SubSeq(acc, 1, Len(acc) - 1))
       ELSE NormalizeSegments(Tail(segs), Append(acc, h))

RECURSIVE JoinSegments(_)
JoinSegments(segs) ==
  IF segs = <<>> THEN "" ELSE "/" \o Head(segs) \o JoinSegments(Tail(segs))

\* path.resolve(from, to) of node:path (POSIX); a relative from is resolved
\* against the directory of the node process
ProcessCwd == RootDir

resolve(from, to) ==
  LET base == IF isAbsolute(from) THEN from ELSE ProcessCwd \o "/" \o from
      full == IF isAbsolute(to) THEN to ELSE base \o "/" \o to
      segs == NormalizeSegments(SplitSlash(full), <<>>)
  IN  IF segs = <<>> THEN "/" ELSE JoinSegments(segs)

Quotes == {"\"", "'"}

\* str.replace(/^["']|["']$/g, '')
StripQuotes(str) ==
  LET a == IF Len(str) >= 1 /\ Ch(str, 1) \in Quotes THEN SubSeq(str, 2, Len(str)) ELSE str
  IN  IF Len(a) >= 1 /\ Ch(a, Len(a)) \in Quotes THEN SubSeq(a, 1, Len(a) - 1) ELSE a

\* Bash.extractDirectoryPath
extractDirectoryPath(command) ==
  LET t == Trim(command)
  IN  StripQuotes(Trim(SubSeq(t, 4, Len(t))))

\* Bash.resolvePath
resolvePath(path, cwd) ==
  IF path = "~" \/ path = "~/" THEN HomeDir
  ELSE IF path = "-" THEN cwd
  ELSE IF isAbsolute(path) THEN resolve(path, "")
  ELSE resolve(cwd, path)

\* the last line of a text: lines[lines.length - 1]
RECURSIVE LastLine(_)
LastLine(text) ==
  LET i == IndexOf(text, "\n", 1)
  IN  IF i = 0 THEN text ELSE LastLine(SubSeq(text, i + 1, Len(text)))

\* the process of `test -d "dir" && echo "EXISTS"` under execa with
\* stripFinalNewline: true
ProbeCommand(dir) == "test -d \"" \o dir \o "\" && echo \"EXISTS\""

ProbeKinds(dir, cwd) ==
  IF cwd \notin ExistingDirs THEN {"spawnfail", "spawnfail_nostreams"}
  ELSE IF dir \in ExistingDirs THEN {"ok", "timeout"} ELSE {"exit1", "timeout"}

ProbeProcess(kind) ==
  CASE kind = "ok" ->
         [resolved |-> TRUE, exitCode |-> Some(0), stdout |-> Some("EXISTS"),
          stderr |-> Some(""), hasExitCode |-> TRUE, message |-> ""]
    [] kind = "exit1" ->
         [resolved |-> FALSE, exitCode |-> Some(1), stdout |-> Some(""),
          stderr |-> Some(""), hasExitCode |-> TRUE,
          message |-> "Command failed with exit code 1"]
    [] kind = "timeout" ->
         [resolved |-> FALSE, exitCode |-> None, stdout |-> Some(""),
          stderr |-> Some(""), hasExitCode |-> TRUE,
          message |-> "Command timed out after 30000 milliseconds"]
    [] kind = "spawnfail" -> SpawnError
    [] kind = "spawnfail_nostreams" -> SpawnErrorNoStreams

\* Bash.executeCommand up to its return or to the pwd it spawns for a
\* command that starts with 'cd ': the result, and whether pwd is spawned
executeCommand(command, cwd, p) ==
  IF p.resolved
  THEN LET stdout == IF p.stdout[1] = "" /\ p.stderr[1] = ""
                     THEN NoOutputMessage ELSE p.stdout[1]
       IN  [result |-> Result(stdout, p.stderr[1], cwd, p.exitCode[1]),
            pwd    |-> StartsWith(Trim(command), "cd ")]
  ELSE LET lastLine == IF p.stdout # None THEN Trim(LastLine(p.stdout[1])) ELSE ""
           newCwd   == IF lastLine # "" /\ lastLine # command THEN lastLine ELSE cwd
       IN  [result |-> CatchResult(p, cwd, newCwd), pwd |-> FALSE]

\* mutant: the new directory is committed before the probe is evaluated
handleCdCommand_CommitFirst(command, cwd, probeKind) ==
  LET newCwd      == resolvePath(extractDirectoryPath(command), cwd)
      checkResult == executeCommand(ProbeCommand(newCwd), cwd, ProbeProcess(probeKind)).result
  IN  IF checkResult.exitCode # 0 \/ ~Includes(checkResult.stdout, "EXISTS")
      THEN [result |-> Result("", "Directory does not exist: " \o newCwd, newCwd, 1),
            cwd    |-> newCwd]
      ELSE [result |-> Result("Changed directory to: " \o newCwd, "", newCwd, 0),
            cwd    |-> newCwd]

\* Bash.handleCdCommand: the result it returns and the _cwd it leaves
handleCdCommand(command, cwd, probeKind) ==
  LET dirPath     == extractDirectoryPath(command)
      newCwd      == resolvePath(dirPath, cwd)
      checkResult == executeCommand(ProbeCommand(newCwd), cwd, ProbeProcess(probeKind)).result
  IN  IF checkResult.exitCode # 0 \/ ~Includes(checkResult.stdout, "EXISTS")
      THEN [result |-> Result("", "Directory does not exist: " \o newCwd, cwd, 1),
            cwd    |-> cwd]
      ELSE [result |-> Result("Changed directory to: " \o newCwd, "", newCwd, 0),
            cwd    |-> newCwd]

\* mutant: the injection check is skipped
execBashCommandChecks_NoInjection(command) == validateCommand(command)

\* Bash.execBashCommand, the checks before anything is executed: the message
\* of the CommandValidationError thrown, or "" when the command passes
execBashCommandChecks(command) ==
  IF _checkForInjection(command) THEN InjectionPattern
  ELSE validateCommand(command)

\* Bash.execBashCommand, the dispatch of a command that passed the checks
IsCdCommand(command) == StartsWith(Trim(command), "cd ")

-----------------------------------------------------------------------------
(* Inputs                                                                  *)

\* the commands execBashCommand is called with
Commands == {
  "ls -la", "cat missing.txt", "rm -rf /", "grep ; rm -rf /", "grep rm notes.txt", "", "   ",
  "cat file | grep pattern | wc -l", "echo hi > out.txt", "echo hi >> out.txt",
  "ls && pwd", "ls || pwd", "rm -rf / && ls",
  "find . -exec chmod u+x {} +", "xargs chmod 755", "find . -exec rm {} +",
  "xargs sudo ls", "sudo ls", "chown u f", "find . -exec chown u {} +",
  "echo " \o BT \o "ls" \o BT, "echo $HOME", "vim notes.txt",
  "tail -f app.log", "pushd /tmp",
  "cd /tmp", "cd /nonexistent", "cd \"/home/u\"", "cd ~", "cd ~/docs", "cd ~/.", "cd src",
  "cd\ncat missing.txt" }


\* the commands a provider proposes in the turn loop
ProviderCommands ==
  {"ls -la", "rm -rf /", "ls | wc", "grep rm notes.txt", "cd /tmp", "   ", "echo $HOME",
   "cd\ncat missing.txt"}

\* what the machine does with them
ProviderRuns == {
  [kind |-> "ran", out |-> "a.txt\nb.txt\n", err |-> "", st |-> 0],
  [kind |-> "ran", out |-> "", err |-> "cat: missing.txt: No such file or directory\n", st |-> 1],
  [kind |-> "timeout", out |-> "", err |-> "", st |-> 0] }

\* the verdicts of the checks of execBashCommand on these commands, computed once
ChecksOf == [c \in Commands \cup ProviderCommands |-> execBashCommandChecks(c)]

-----------------------------------------------------------------------------
(* State                                                                   *)

VARIABLES
  _cwd,        \* Bash._cwd
  initPc,      \* the un-awaited initializeWorkingDirectory task: "cd", "pwd", "done"
  initCwd,     \* the directory the pwd of that task was spawned in
  call,        \* the last call of execBashCommand, as its caller observes it
  auto,        \* CLIOptions.auto
  pc,          \* the turn loop: "prompt", "query", "tools"
  pending,     \* the tool calls of the current response not yet handled
  _messages,   \* MessageManager._messages
  turns,       \* user turns taken
  _maxMessages,   \* MessageManager._maxMessages
  _systemMessage, \* MessageManager._systemMessage: None or Some(content)
  history,     \* every message appended to the MessageManager, in order
  script,      \* what the provider does with its 1st, 2nd, ... call
  qpc,         \* LLMClient.query: "idle", "calling", "sleeping", "returned", "threw"
  attempt,     \* the loop variable of query
  calls,       \* provider calls made by query
  sleeps,      \* the delays query has slept, in order
  lastError,   \* the local lastError of query
  thrown,      \* the LLMError query threw
  sent,        \* the message lists handed to the provider by query, one per call
  nonInteractive, \* CLIOptions.nonInteractive
  confirm,     \* the answer to the last confirmation prompt: None when none was asked
  probe,       \* what the provider did with the request of testConnection
  connected,   \* what testConnection returned: None before it is called
  parseInput,  \* the command parseCommandArgs is called with
  parseArgs    \* what it returned: None before the call

queryVars == <<script, qpc, attempt, calls, sleeps, lastError, thrown, sent>>
llmVars == <<queryVars, probe, connected>>
utilVars == <<parseInput, parseArgs>>
mmVars == <<_maxMessages, _systemMessage>>
vars == <<_cwd, initPc, initCwd, call, auto, pc, pending, _messages, turns, mmVars, history, llmVars,
          nonInteractive, confirm, utilVars>>
bashVars == <<_cwd, initPc, initCwd, call>>
loopVars == <<auto, nonInteractive, confirm, pc, pending, _messages, turns, mmVars, history>>

\* bounds of the model
MaxTurns == 1
MaxToolCalls == 2

NoResult == Result("", "", "", 0)

NoCall ==
  [command |-> "", outcome |-> "none", error |-> "", result |-> NoResult,
   cwdBefore |-> "", cwdAfter |-> "", path |-> "none", run |-> NoRun,
   target |-> "", spawned |-> <<>>]

-----------------------------------------------------------------------------
(* Bash.execBashCommand                                                    *)

Rejected(command, err) ==
  /\ call' = [command |-> command, outcome |-> "threw", error |-> err,
              result |-> NoResult, cwdBefore |-> _cwd, cwdAfter |-> _cwd,
              path |-> "none", run |-> NoRun, target |-> "", spawned |-> <<>>]
  /\ _cwd' = _cwd

DirectoryChange(command) ==
  LET target == resolvePath(extractDirectoryPath(command), _cwd) IN
  \E kind \in ProbeKinds(target, _cwd) :
    LET r == handleCdCommand(command, _cwd, kind) IN
    /\ _cwd' = r.cwd
    /\ call' = [command |-> command, outcome |-> "returned", error |-> "",
                result |-> r.result, cwdBefore |-> _cwd, cwdAfter |-> r.cwd,
                path |-> "cd",
                run |-> [kind |-> kind, out |-> "", err |-> "", st |-> 0, dir |-> ""],
                target |-> target, spawned |-> <<ProbeCommand(target)>>]

Wrapped(command, runs) ==
  \E r0 \in RunsIn(_cwd, runs) :
    \E dir \in DirsAfter(command, _cwd, r0.kind) :
      LET run == [kind |-> r0.kind, out |-> r0.out, err |-> r0.err, st |-> r0.st, dir |-> dir]
          r   == executeCommandWithWrapper(command, _cwd, run)
      IN  /\ _cwd' = r.cwd
          /\ call' = [command |-> command, outcome |-> "returned", error |-> "",
                      result |-> r.result, cwdBefore |-> _cwd, cwdAfter |-> r.cwd,
                      path |-> "wrapper", run |-> run, target |-> "",
                      spawned |-> <<WrappedCommand(command)>>]

\* one call of execBashCommand; runs is what the machine may do with the command
execBashCommand(command, runs) ==
  LET err == ChecksOf[command] IN
  IF err # "" THEN Rejected(command, err)
  ELSE IF IsCdCommand(command) THEN DirectoryChange(command)
  ELSE Wrapped(command, runs)

-----------------------------------------------------------------------------
(* The constructor's initializeWorkingDirectory task                       *)

InitCommand == "cd \"" \o RootDir \o "\""

\* `cd "<rootDir>"` has finished: executeCommand goes on to spawn pwd in the
\* current _cwd, or returns from its catch block
InitCdDone ==
  /\ initPc = "cd"
  /\ \E p \in {ProbeProcess("timeout"),
               [resolved |-> TRUE, exitCode |-> Some(0), stdout |-> Some(""),
                stderr |-> Some(""), hasExitCode |-> TRUE, message |-> ""]} :
       IF executeCommand(InitCommand, _cwd, p).pwd
       THEN initPc' = "pwd" /\ initCwd' = _cwd
       ELSE initPc' = "done" /\ initCwd' = ""
  /\ UNCHANGED <<_cwd, call, loopVars>>
  /\ UNCHANGED <<llmVars, utilVars>>

\* that pwd has finished: its output is committed, or its failure is ignored
InitPwdDone ==
  /\ initPc = "pwd"
  /\ \E ok \in IF initCwd \in ExistingDirs THEN BOOLEAN ELSE {FALSE} :
       _cwd' = IF ok THEN Trim(initCwd) ELSE _cwd
  /\ initPc' = "done"
  /\ initCwd' = ""
  /\ UNCHANGED <<call, loopVars>>
  /\ UNCHANGED <<llmVars, utilVars>>

-----------------------------------------------------------------------------
(* Conversation state manager: src/src/messages.ts                         *)

CONTEXT_SEPARATOR == "#"

\* Config.systemPrompt, its first words
systemPrompt == "/think\n\nYou are a helpful and very concise Bash assistant"

Message(role, content, toolCallId) ==
  [role |-> role, content |-> content, tool_call_id |-> toolCallId, tool_calls |-> <<>>]

\* an assistant message with the tool calls passed to addAssistantMessage
AssistantMessage(content, toolCalls) ==
  [role |-> "assistant", content |-> content, tool_call_id |-> "", tool_calls |-> toolCalls]

TrimMarker(excess) ==
  Message("system",
          CONTEXT_SEPARATOR \o " Context trimmed: " \o ToString(excess)
            \o " messages removed to maintain conversation history " \o CONTEXT_SEPARATOR,
          "")

\* mutant: the marker is put after the retained messages
trimMessages_MarkerLast(msgs, max) ==
  IF Len(msgs) <= max THEN msgs
  ELSE SubSeq(msgs, Len(msgs) - max + 1, Len(msgs)) \o <<TrimMarker(Len(msgs) - max)>>

\* mutant: the messages beyond the maximum are removed from the end
trimMessages_DropNewest(msgs, max) ==
  IF Len(msgs) <= max THEN msgs ELSE SubSeq(msgs, 1, max)

\* mutant: the oldest message is kept and the messages after it are removed
trimMessages_KeepOldest(msgs, max) ==
  IF Len(msgs) <= max THEN msgs
  ELSE <<msgs[1]>> \o SubSeq(msgs, Len(msgs) - max + 2, Len(msgs))

\* MessageManager.trimMessages (indices of the source are 0-based)
trimMessages(msgs, max) ==
  IF Len(msgs) <= max THEN msgs
  ELSE LET excess == Len(msgs) - max
           users  == {i \in excess..(Len(msgs) - 2) : msgs[i + 1].role = "user"}
           cutoff == IF users = {} THEN excess ELSE SetMin(users) + 1
           kept   == SubSeq(msgs, cutoff + 1, Len(msgs))
       IN  IF Len(kept) > 0 /\ kept[1].role = "user"
           THEN <<TrimMarker(excess)>> \o kept
           ELSE kept

\* the maximum CLIApplication passes to MessageManager is 200; the model
\* runs the same code with a small maximum
AppMaxMessages == 3

addUserMessage(msgs, content) ==
  trimMessages(Append(msgs, Message("user", content, "")), _maxMessages)

\* toolCalls is <<>> when the optional argument is not passed
addAssistantMessage(msgs, content, toolCalls) ==
  trimMessages(Append(msgs, AssistantMessage(content, toolCalls)), _maxMessages)

\* MessageManager.getMessages
getMessages ==
  IF _systemMessage = None THEN _messages
  ELSE <<Message("system", _systemMessage[1], "")>> \o _messages

addToolMessage(msgs, content, toolCallId) ==
  trimMessages(Append(msgs, Message("tool", content, toolCallId)), _maxMessages)

-----------------------------------------------------------------------------
(* JSON text                                                               *)

RECURSIVE JsonEscape(_)
\* the characters of a string as JSON.stringify writes them
JsonEscape(str) ==
  IF str = "" THEN ""
  ELSE LET c == Ch(str, 1)
           e == CASE c = "\"" -> "\\\""
                  [] c = "\\" -> "\\\\"
                  [] c = "\n" -> "\\n"
                  [] c = "\t" -> "\\t"
                  [] c = "\r" -> "\\r"
                  [] c = "\f" -> "\\f"
                  [] OTHER    -> c
       IN  e \o JsonEscape(SubSeq(str, 2, Len(str)))

JsonString(str) == "\"" \o JsonEscape(str) \o "\""

RECURSIVE JsonUnescape(_)
JsonUnescape(body) ==
  IF body = "" THEN ""
  ELSE IF Ch(body, 1) = "\\" /\ Len(body) >= 2
       THEN LET c == Ch(body, 2)
                d == CASE c = "n" -> "\n"
                       [] c = "t" -> "\t"
                       [] c = "r" -> "\r"
                       [] c = "f" -> "\f"
                       [] OTHER   -> c
            IN  d \o JsonUnescape(SubSeq(body, 3, Len(body)))
       ELSE Ch(body, 1) \o JsonUnescape(SubSeq(body, 2, Len(body)))

\* mutant: the exit code is left out of the object
StringifyResult_NoExitCode(r) ==
  "{\"stdout\":" \o JsonString(r.stdout) \o ",\"stderr\":" \o JsonString(r.stderr)
    \o ",\"cwd\":" \o JsonString(r.cwd) \o "}"

\* JSON.stringify({stdout, stderr, cwd, exitCode})
StringifyResult(r) ==
  "{\"stdout\":" \o JsonString(r.stdout) \o ",\"stderr\":" \o JsonString(r.stderr)
    \o ",\"cwd\":" \o JsonString(r.cwd) \o ",\"exitCode\":" \o ToString(r.exitCode) \o "}"

\* the arguments text a provider writes for a command
ArgumentsOf(command) == "{\"cmd\":" \o JsonString(command) \o "}"

CmdPrefix == "{\"cmd\":\""
CmdSuffix == "\"}"

\* JSON.parse(arguments) followed by args.cmd, for the texts a provider
\* sends: an object with a cmd string, the empty object, or text that is
\* not JSON (threw)
ParseArguments(text) ==
  IF text = "{}" THEN [threw |-> FALSE, cmd |-> None]
  ELSE IF StartsWith(text, CmdPrefix) /\ Len(text) >= Len(CmdPrefix) + Len(CmdSuffix)
          /\ SubSeq(text, Len(text) - 1, Len(text)) = CmdSuffix
       THEN [threw |-> FALSE,
             cmd   |-> Some(JsonUnescape(SubSeq(text, Len(CmdPrefix) + 1, Len(text) - 2)))]
       ELSE [threw |-> TRUE, cmd |-> None]

-----------------------------------------------------------------------------
(* Provider responses and user answers                                    *)

ToolCall(id, name, arguments) == [id |-> id, name |-> name, arguments |-> arguments]

\* the proposals of a provider, without their ids
Proposals ==
  { [name |-> "exec_bash_command", arguments |-> ArgumentsOf(c)] : c \in ProviderCommands }
  \cup { [name |-> "exec_bash_command", arguments |-> "{}"],
         [name |-> "exec_bash_command", arguments |-> "{\"cmd\":"],
         [name |-> "read_file", arguments |-> "{\"path\":\"a.txt\"}"] }

\* the tool-call lists of a response: ids are call_1, call_2, ...
ToolCallLists ==
  UNION { { [k \in 1..n |-> ToolCall("call_" \o ToString(k), f[k].name, f[k].arguments)]
            : f \in [1..n -> Proposals] } : n \in 0..MaxToolCalls }

UserTexts == {"list the files"}

ResponseTexts == {"", "/think Listing the files."}

\* the answers the validate function of the confirmation prompt lets through
ConfirmAnswers == {"y", "Y", " y", "n", "N", ""}

-----------------------------------------------------------------------------
(* The turn loop: src/src/types.ts CLIApplication                          *)

\* CLIApplication._filterThinkDirective
_filterThinkDirective(content) ==
  IF StartsWith(content, "/think") THEN Trim(SubSeq(content, 6, Len(content)))
  ELSE Trim(content)

\* mutant: every answer but n runs the command
shouldExecute_UnlessNo(answer) == toLowerCase(Trim(answer)) # "n"

\* shouldExecute = confirm.trim().toLowerCase() === 'y'
shouldExecute(answer) == toLowerCase(Trim(answer)) = "y"

\* _handleUserInput with a text that is not a special command
UserInput ==
  /\ pc = "prompt"
  /\ turns < MaxTurns
  /\ \E text \in UserTexts :
       LET content == Trim(text) \o "\n\nCurrent working directory: " \o BT \o _cwd \o BT
       IN  /\ _messages' = addUserMessage(_messages, content)
           /\ history' = Append(history, Message("user", content, ""))
  /\ pc' = "query"
  /\ turns' = turns + 1
  /\ UNCHANGED <<bashVars, auto, nonInteractive, confirm, pending, mmVars>>
  /\ UNCHANGED <<llmVars, utilVars>>

\* _processRequest: the provider answered
QueryResponse ==
  /\ pc = "query"
  /\ \E text \in ResponseTexts, toolCalls \in ToolCallLists :
       LET content == _filterThinkDirective(text) IN
       /\ _messages' = IF text # "" /\ content # ""
                       THEN addAssistantMessage(_messages, content, <<>>)
                       ELSE _messages
       /\ history' = IF text # "" /\ content # ""
                      THEN Append(history, AssistantMessage(content, <<>>))
                      ELSE history
       /\ pending' = toolCalls
       /\ pc' = IF Len(toolCalls) > 0 THEN "tools" ELSE "prompt"
  /\ UNCHANGED <<bashVars, auto, nonInteractive, confirm, turns, mmVars>>
  /\ UNCHANGED <<llmVars, utilVars>>

\* _processRequest: query threw; start() reports the error and prompts again
QueryFailure ==
  /\ pc = "query"
  /\ pc' = "prompt"
  /\ UNCHANGED <<bashVars, auto, nonInteractive, confirm, pending, _messages, turns, mmVars, history>>
  /\ UNCHANGED <<llmVars, utilVars>>

\* the loop of _handleToolCalls goes on with the next tool call or returns
Continue ==
  /\ pending' = Tail(pending)
  /\ pc' = IF Len(pending) > 1 THEN "tools" ELSE "prompt"

\* mutant: the unknown function is reported and the rest of the response is dropped
ToolCallUnknown_Aborts ==
  /\ pc = "tools"
  /\ LET toolCall == Head(pending) IN
     /\ toolCall.name # "exec_bash_command"
     /\ _messages' = addToolMessage(_messages, "Unknown function: " \o toolCall.name, toolCall.id)
     /\ history' = Append(history, Message("tool", "Unknown function: " \o toolCall.name, toolCall.id))
  /\ pending' = <<>>
  /\ pc' = "prompt"
  /\ UNCHANGED <<bashVars, auto, nonInteractive, confirm, turns, mmVars>>
  /\ UNCHANGED <<llmVars, utilVars>>

ToolCallUnknown ==
  /\ pc = "tools"
  /\ LET toolCall == Head(pending) IN
     /\ toolCall.name # "exec_bash_command"
     /\ _messages' = addToolMessage(_messages, "Unknown function: " \o toolCall.name, toolCall.id)
     /\ history' = Append(history, Message("tool", "Unknown function: " \o toolCall.name, toolCall.id))
  /\ Continue
  /\ UNCHANGED <<bashVars, auto, nonInteractive, confirm, turns, mmVars>>
  /\ UNCHANGED <<llmVars, utilVars>>

\* JSON.parse throws: the exception leaves _handleToolCalls and _processRequest
ToolCallMalformed ==
  /\ pc = "tools"
  /\ LET toolCall == Head(pending) IN
     /\ toolCall.name = "exec_bash_command"
     /\ ParseArguments(toolCall.arguments).threw
  /\ pending' = <<>>
  /\ pc' = "prompt"
  /\ UNCHANGED <<bashVars, auto, nonInteractive, confirm, _messages, turns, mmVars, history>>
  /\ UNCHANGED <<llmVars, utilVars>>

ToolCallNoCommand ==
  /\ pc = "tools"
  /\ LET toolCall == Head(pending)
         args     == ParseArguments(toolCall.arguments)
     IN  /\ toolCall.name = "exec_bash_command"
         /\ ~args.threw
         /\ Coalesce(args.cmd, "") = ""
         /\ _messages' = addToolMessage(_messages, "No command provided", toolCall.id)
         /\ history' = Append(history, Message("tool", "No command provided", toolCall.id))
  /\ Continue
  /\ UNCHANGED <<bashVars, auto, nonInteractive, confirm, turns, mmVars>>
  /\ UNCHANGED <<llmVars, utilVars>>

ToolCallCancelled ==
  /\ pc = "tools"
  /\ LET toolCall == Head(pending)
         args     == ParseArguments(toolCall.arguments)
     IN  /\ toolCall.name = "exec_bash_command"
         /\ ~args.threw
         /\ Coalesce(args.cmd, "") # ""
         /\ ~auto
         /\ \E answer \in ConfirmAnswers :
              /\ ~shouldExecute(answer)
              /\ confirm' = Some(answer)
         /\ _messages' = addToolMessage(_messages, "Command cancelled by user", toolCall.id)
         /\ history' = Append(history, Message("tool", "Command cancelled by user", toolCall.id))
  /\ Continue
  /\ UNCHANGED <<bashVars, auto, nonInteractive, turns, mmVars>>
  /\ UNCHANGED <<llmVars, utilVars>>

\* mutant: the catch block reports a failure without the error
ToolResultContent_NoReason(c) ==
  IF c.outcome = "returned"
  THEN StringifyResult(Result(c.result.stdout, c.result.stderr, c.result.cwd, c.result.exitCode))
  ELSE "Error: execution failed"

\* the content of the tool message for a finished call c of execBashCommand:
\* the serialized result, or the text of the error caught
ToolResultContent(c) ==
  IF c.outcome = "returned"
  THEN StringifyResult(Result(c.result.stdout, c.result.stderr, c.result.cwd, c.result.exitCode))
  ELSE "Error: CommandValidationError: " \o c.error

ToolCallExecute ==
  /\ pc = "tools"
  /\ LET toolCall == Head(pending)
         args     == ParseArguments(toolCall.arguments)
     IN  /\ toolCall.name = "exec_bash_command"
         /\ ~args.threw
         /\ Coalesce(args.cmd, "") # ""
         /\ \/ auto /\ confirm' = None
            \/ /\ ~auto
               /\ \E answer \in ConfirmAnswers :
                    /\ shouldExecute(answer)
                    /\ confirm' = Some(answer)
         /\ execBashCommand(args.cmd[1], ProviderRuns)
         /\ LET content == ToolResultContent(call')
            IN  /\ _messages' = addToolMessage(_messages, content, toolCall.id)
                /\ history' = Append(history, Message("tool", content, toolCall.id))
  /\ Continue
  /\ UNCHANGED <<initPc, initCwd, auto, nonInteractive, turns, mmVars>>
  /\ UNCHANGED <<llmVars, utilVars>>

\* a direct call of Bash.execBashCommand, as the repository's tests make it
Call ==
  /\ \E command \in Commands : execBashCommand(command, CommandRuns)
  /\ UNCHANGED <<initPc, initCwd, loopVars>>
  /\ UNCHANGED <<llmVars, utilVars>>

-----------------------------------------------------------------------------
(* Provider client: src/src/bash.ts LLMClient                              *)

_maxRetries == 3
_retryDelay == 1000

\* An error object: name and message of Error; status and hasStatus
\* ('status' in error) of the provider library's errors; causeStatus is
\* cause.status; statusCode is the field of LLMError. kind says what the
\* failure was and is not read by the client.
Error(name, message, hasStatus, status, causeStatus, kind) ==
  [name |-> name, message |-> message, hasStatus |-> hasStatus, status |-> status,
   causeStatus |-> causeStatus, statusCode |-> None, kind |-> kind]

NoError == Error("", "", FALSE, None, None, "")

\* new LLMError(message, statusCode)
LLMError(message, statusCode, kind) ==
  [name |-> "LLMError", message |-> message, hasStatus |-> FALSE, status |-> None,
   causeStatus |-> None, statusCode |-> statusCode, kind |-> kind]

\* the errors chat.completions.create rejects with
ProviderErrors == {
  Error("Error", "503 Service Unavailable", TRUE, Some(503), None, "server"),
  Error("RateLimitError", "429 Rate limit exceeded", TRUE, Some(429), None, "rate_limit"),
  Error("AuthenticationError", "401 Incorrect API key provided", TRUE, Some(401), None, "auth"),
  Error("BadRequestError", "400 Invalid request body", TRUE, Some(400), None, "bad_request"),
  Error("NotFoundError", "404 Model not found", TRUE, Some(404), None, "client"),
  Error("APIConnectionError", "Connection error.", TRUE, None, None, "connection"),
  Error("Error", "Connection error.", TRUE, None, None, "connection"),
  Error("APIConnectionTimeoutError", "Request timed out.", TRUE, None, None, "timeout"),
  Error("FetchError", "request to https://api failed, reason: ECONNRESET", FALSE, None, None, "connection"),
  Error("Error", "connect ETIMEDOUT 10.0.0.1:443", FALSE, None, None, "timeout"),
  Error("TypeError", "fetch failed", FALSE, None, Some(502), "server") }

\* what one provider call does: it answers, answers without choices, or
\* rejects with an error
ProviderOutcomes ==
  {[t |-> "ok", error |-> NoError], [t |-> "nochoice", error |-> NoError]}
  \cup {[t |-> "error", error |-> e] : e \in ProviderErrors}

Scripts == [1.._maxRetries -> ProviderOutcomes]

\* LLMClient._executeQuery: the error it throws for an outcome that is not
\* an answer
_executeQueryError(outcome) ==
  IF outcome.t = "nochoice"
  THEN LLMError("No response choices returned from LLM", None, "no_choice")
  ELSE LET error == outcome.error IN
       IF error.status # None /\ error.status[1] # 0
       THEN LLMError(error.message, error.status, error.kind)
       ELSE IF error.name = "APIConnectionError"
       THEN LLMError("Failed to connect to LLM API", Some(503), error.kind)
       ELSE IF error.name = "AuthenticationError"
       THEN LLMError("Invalid API key", Some(401), error.kind)
       ELSE IF error.name = "RateLimitError"
       THEN LLMError("Rate limit exceeded", Some(429), error.kind)
       ELSE error

\* LLMClient._extractStatusCode; null and undefined are both None
_extractStatusCode(error) ==
  IF error.hasStatus THEN error.status
  ELSE error.causeStatus

\* LLMClient._isRetryableError
_isRetryableError(error) ==
  \/ error.name = "APIConnectionError"
  \/ error.name = "FetchError"
  \/ Includes(error.message, "ECONNRESET")
  \/ Includes(error.message, "ETIMEDOUT")
  \/ error.name = "RateLimitError"
  \/ LET statusCode == _extractStatusCode(error)
     IN  statusCode # None /\ statusCode[1] >= 500 /\ statusCode[1] < 600

\* 2^n
RECURSIVE Pow2(_)
Pow2(n) == IF n = 0 THEN 1 ELSE 2 * Pow2(n - 1)

\* mutant: the exponent is the attempt, not the attempt minus one
RetryDelay_OffByOne(k) == _retryDelay * Pow2(k)

\* the delay before the attempt that follows attempt k
RetryDelay(k) == _retryDelay * Pow2(k - 1)

NoProbe == [t |-> "none", content |-> None]

\* the message _executeQuery hands to the provider for a message of the
\* conversation: role and content, the tool calls of an assistant message,
\* the tool_call_id of a tool message
RequestMessage(m) ==
  CASE m.role = "assistant" -> AssistantMessage(m.content, m.tool_calls)
    [] m.role = "tool"      -> Message("tool", m.content, m.tool_call_id)
    [] OTHER                -> Message(m.role, m.content, "")

\* messages.map(...) of _executeQuery
RequestMessages(msgs) == [i \in DOMAIN msgs |-> RequestMessage(msgs[i])]

\* query is called
QueryStart ==
  /\ qpc = "idle"
  /\ qpc' = "calling"
  /\ attempt' = 1
  /\ UNCHANGED <<script, calls, sleeps, lastError, thrown, sent>>
  /\ UNCHANGED <<bashVars, loopVars, probe, connected, utilVars>>

\* _executeQuery returns a response: query returns it
AttemptSucceeds ==
  /\ qpc = "calling"
  /\ script[calls + 1].t = "ok"
  /\ calls' = calls + 1
  /\ qpc' = "returned"
  /\ sent' = Append(sent, RequestMessages(getMessages))
  /\ UNCHANGED <<script, attempt, sleeps, lastError, thrown>>
  /\ UNCHANGED <<bashVars, loopVars, probe, connected, utilVars>>

\* _executeQuery throws and the loop breaks: query throws its LLMError
AttemptFailsLast ==
  /\ qpc = "calling"
  /\ script[calls + 1].t # "ok"
  /\ LET error == _executeQueryError(script[calls + 1]) IN
     /\ ~_isRetryableError(error) \/ attempt = _maxRetries
     /\ lastError' = error
     /\ thrown' = LLMError("LLM query failed after " \o ToString(_maxRetries)
                             \o " attempts: " \o OrElse(error.message, "Unknown error occurred"),
                           _extractStatusCode(error), error.kind)
  /\ calls' = calls + 1
  /\ qpc' = "threw"
  /\ sent' = Append(sent, RequestMessages(getMessages))
  /\ UNCHANGED <<script, attempt, sleeps>>
  /\ UNCHANGED <<bashVars, loopVars, probe, connected, utilVars>>

\* mutant: the failure of an attempt is recorded in the conversation
AttemptFailsRetry_RecordsError ==
  /\ qpc = "calling"
  /\ script[calls + 1].t # "ok"
  /\ LET error == _executeQueryError(script[calls + 1]) IN
     /\ _isRetryableError(error)
     /\ attempt # _maxRetries
     /\ lastError' = error
     /\ _messages' = Append(_messages, Message("assistant", error.message, ""))
  /\ calls' = calls + 1
  /\ sleeps' = Append(sleeps, RetryDelay(attempt))
  /\ qpc' = "sleeping"
  /\ sent' = Append(sent, RequestMessages(getMessages))
  /\ UNCHANGED <<script, attempt, thrown>>
  /\ UNCHANGED <<bashVars, auto, nonInteractive, confirm, pc, pending, turns, mmVars, history,
                 probe, connected, utilVars>>

\* _executeQuery throws a retryable error and attempts remain: query sleeps
AttemptFailsRetry ==
  /\ qpc = "calling"
  /\ script[calls + 1].t # "ok"
  /\ LET error == _executeQueryError(script[calls + 1]) IN
     /\ _isRetryableError(error)
     /\ attempt # _maxRetries
     /\ lastError' = error
  /\ calls' = calls + 1
  /\ sleeps' = Append(sleeps, RetryDelay(attempt))
  /\ qpc' = "sleeping"
  /\ sent' = Append(sent, RequestMessages(getMessages))
  /\ UNCHANGED <<script, attempt, thrown>>
  /\ UNCHANGED <<bashVars, loopVars, probe, connected, utilVars>>

\* the delay is over: the next iteration of the loop
SleepDone ==
  /\ qpc = "sleeping"
  /\ attempt' = attempt + 1
  /\ qpc' = "calling"
  /\ UNCHANGED <<script, calls, sleeps, lastError, thrown, sent>>
  /\ UNCHANGED <<bashVars, loopVars, probe, connected, utilVars>>

\* what the provider does with the request of testConnection: it answers
\* with a text or with a null content, answers without choices, or the
\* request fails
ProbeOutcomes ==
  {[t |-> "ok", content |-> Some(text)] : text \in {"OK", "Ok", "Ready."}}
  \cup {[t |-> "ok", content |-> None], [t |-> "nochoice", content |-> None],
        [t |-> "error", content |-> None]}

\* LLMClient.testConnection: the boolean it returns; an error of the request
\* is caught and logged
testConnection(outcome) ==
  /\ outcome.t = "ok"
  /\ outcome.content # None
  /\ Includes(outcome.content[1], "OK")

\* a call of testConnection, made by start() before the first query
TestConnection ==
  /\ qpc = "idle"
  /\ connected = None
  /\ \E outcome \in ProbeOutcomes :
       /\ probe' = outcome
       /\ connected' = Some(testConnection(outcome))
  /\ UNCHANGED <<bashVars, loopVars, queryVars, utilVars>>

-----------------------------------------------------------------------------
(* A MessageManager used on its own, as the repository's tests use it      *)

\* bounds: the largest maximum a manager is constructed with, and the
\* number of messages appended to it
MaxMaximum == 3
MaxAppends == 5

\* the content of the next message appended: each message is different
NextContent == "m" \o ToString(Len(history) + 1)

Appended(message) ==
  /\ Len(history) < MaxAppends
  /\ history' = Append(history, message)
  /\ UNCHANGED <<bashVars, auto, nonInteractive, confirm, pc, pending, turns, mmVars, llmVars, utilVars>>

AddUser ==
  /\ _messages' = addUserMessage(_messages, NextContent)
  /\ Appended(Message("user", NextContent, ""))

AddAssistant ==
  /\ \E toolCalls \in {<<>>, <<ToolCall("call_" \o ToString(Len(history) + 1),
                                        "exec_bash_command", ArgumentsOf("ls -la"))>>} :
       /\ _messages' = addAssistantMessage(_messages, NextContent, toolCalls)
       /\ Appended(AssistantMessage(NextContent, toolCalls))

AddTool ==
  /\ \E id \in {"call_" \o ToString(Len(history))} :
       /\ _messages' = addToolMessage(_messages, NextContent, id)
       /\ Appended(Message("tool", NextContent, id))

-----------------------------------------------------------------------------
(* Command parser: src/src/utils.ts parseCommandArgs                       *)

\* bound: the length of the command lines drawn from ParseAlphabet
MaxCommandLength == 4

ParseAlphabet == {"a", " ", "\t", "\"", "'"}

RECURSIVE LinesUpTo(_)
\* the strings over ParseAlphabet of at most n characters
LinesUpTo(n) ==
  IF n = 0 THEN {""}
  ELSE LET shorter == LinesUpTo(n - 1)
       IN  shorter \cup {s \o c : s \in shorter, c \in ParseAlphabet}

\* the commands parseCommandArgs is called with: those of the repository's
\* tests, commands with nested and adjacent quotes, and every short line
CommandLines ==
  {"ls -la", "echo \"hello world\"", "echo 'hello world'", "echo \"it's ok\" now",
   "grep 'a \"b\" c' f.txt", "echo a\"b c\"d", "echo  \"\" x",
   "ls\t-la", "cat a.txt\nls", "printf \"a\tb\" x\ty", "echo 'a\nb' c"}
    \cup LinesUpTo(MaxCommandLength)

\* mutant: a tab and a line break end a word as a space does
IsArgSeparator_Whitespace(char) == char \in {" ", "\t", "\n"}

\* the character that ends a word outside quotes: char === ' '
IsArgSeparator(char) == char = " "

RECURSIVE ParseLoop(_, _, _)
\* the while loop of parseCommandArgs from index i (1-based) in state st
ParseLoop(command, i, st) ==
  IF i > Len(command) THEN st
  ELSE LET char == Ch(command, i) IN
       ParseLoop(command, i + 1,
         IF (char = "\"" \/ char = "'") /\ ~st.inQuotes
         THEN [st EXCEPT !.inQuotes = TRUE, !.quoteChar = char]
         ELSE IF char = st.quoteChar /\ st.inQuotes
         THEN [st EXCEPT !.inQuotes = FALSE, !.quoteChar = ""]
         ELSE IF IsArgSeparator(char) /\ ~st.inQuotes
         THEN IF st.current # ""
              THEN [st EXCEPT !.args = Append(st.args, st.current), !.current = ""]
              ELSE st
         ELSE [st EXCEPT !.current = st.current \o char])

ParseStart == [args |-> <<>>, current |-> "", inQuotes |-> FALSE, quoteChar |-> ""]

\* mutant: the word being read when the command ends is not pushed
parseCommandArgs_NoFinalPush(command) ==
  ParseLoop(command, 1, ParseStart).args

\* parseCommandArgs
parseCommandArgs(command) ==
  LET st == ParseLoop(command, 1, ParseStart)
  IN  IF st.current # "" THEN Append(st.args, st.current) ELSE st.args

\* a call of parseCommandArgs
ParseCommandArgs ==
  /\ parseArgs = None
  /\ parseArgs' = Some(parseCommandArgs(parseInput))
  /\ UNCHANGED <<bashVars, loopVars, llmVars, parseInput>>

-----------------------------------------------------------------------------
(* Specifications                                                          *)

InitLLM ==
  /\ script = <<>>
  /\ qpc = "idle"
  /\ attempt = 0
  /\ calls = 0
  /\ sleeps = <<>>
  /\ lastError = NoError
  /\ thrown = NoError
  /\ sent = <<>>
  /\ probe = NoProbe
  /\ connected = None

\* parseCommandArgs has not been called
InitUtils ==
  /\ parseInput = ""
  /\ parseArgs = None

\* new MessageManager(this._config.systemPrompt, 200)
InitMessageManager ==
  /\ _maxMessages = AppMaxMessages
  /\ _systemMessage = Some(systemPrompt)

InitCore ==
  /\ _cwd = RootDir
  /\ initPc = "cd"
  /\ initCwd = ""
  /\ call = NoCall
  /\ auto \in BOOLEAN
  /\ nonInteractive \in BOOLEAN
  /\ confirm = None
  /\ pc = "prompt"
  /\ pending = <<>>
  /\ _messages = <<>>
  /\ turns = 0
  /\ history = <<>>

InitApp == InitCore /\ InitMessageManager

Init == InitApp /\ InitLLM /\ InitUtils

Next ==
  \/ UserInput
  \/ QueryResponse
  \/ QueryFailure
  \/ ToolCallUnknown
  \/ ToolCallMalformed
  \/ ToolCallNoCommand
  \/ ToolCallCancelled
  \/ ToolCallExecute
  \/ InitCdDone
  \/ InitPwdDone

\* the application: the turn loop with the initialization task
Spec == Init /\ [][Next]_vars

NextBash ==
  \/ Call
  \/ InitCdDone
  \/ InitPwdDone

InitBash == Init /\ auto /\ ~nonInteractive

\* the Bash executor alone, called with any command
SpecBash == InitBash /\ [][NextBash]_vars

NextQuery ==
  \/ TestConnection
  \/ QueryStart
  \/ AttemptSucceeds
  \/ AttemptFailsLast
  \/ AttemptFailsRetry
  \/ SleepDone

\* the conversations query is called with: a first user message, and a
\* turn with a tool call and its result
Conversations ==
  { <<Message("user", "list the files", "")>>,
    <<Message("user", "list the files", ""),
      AssistantMessage("I will list them.",
                       <<ToolCall("call_1", "exec_bash_command", ArgumentsOf("ls -la"))>>),
      Message("tool", "a.txt", "call_1")>> }

InitQuery ==
  /\ _cwd = RootDir
  /\ initPc = "cd"
  /\ initCwd = ""
  /\ call = NoCall
  /\ confirm = None
  /\ pc = "prompt"
  /\ pending = <<>>
  /\ turns = 0
  /\ _messages \in Conversations
  /\ history = _messages
  /\ InitMessageManager
  /\ InitUtils
  /\ auto = TRUE
  /\ nonInteractive = FALSE
  /\ sent = <<>>
  /\ probe = NoProbe
  /\ connected = None
  /\ script \in Scripts
  /\ qpc = "idle"
  /\ attempt = 0
  /\ calls = 0
  /\ sleeps = <<>>
  /\ lastError = NoError
  /\ thrown = NoError

\* one call of LLMClient.query against a provider that follows a script
SpecQuery == InitQuery /\ [][NextQuery]_vars

\* the same, where a step that can be taken is taken: a provider call ends
\* within the client's timeout and a delay ends when its timer fires
SpecQueryFair == SpecQuery /\ WF_vars(NextQuery)

NextParse == ParseCommandArgs

InitParse ==
  /\ InitApp
  /\ InitLLM
  /\ auto
  /\ ~nonInteractive
  /\ parseInput \in CommandLines
  /\ parseArgs = None

\* parseCommandArgs called with any command line
SpecParse == InitParse /\ [][NextParse]_vars

NextMessages ==
  \/ AddUser
  \/ AddAssistant
  \/ AddTool

\* new MessageManager(systemPrompt, maxMessages)
InitMessages ==
  /\ InitCore
  /\ auto
  /\ ~nonInteractive
  /\ InitLLM
  /\ InitUtils
  /\ _maxMessages \in 1..MaxMaximum
  /\ _systemMessage \in {None, Some(systemPrompt)}

\* a MessageManager with any maximum, and any appends
SpecMessages == InitMessages /\ [][NextMessages]_vars

-----------------------------------------------------------------------------
(* Properties                                                              *)

Called == call.outcome # "none"

MatchesBlocklist(command) ==
  \E k \in DOMAIN blockedPatterns : Test(blockedPatterns[k], command)

MatchesInjection(command) ==
  \E k \in DOMAIN INJECTION_PATTERNS : Test(INJECTION_PATTERNS[k], command)

\* C1: in the turn loop a shell process is spawned for a proposed command
\* only if that command string matches no injection pattern, is not empty,
\* has an allowlisted base token and matches no blocklist pattern; a call
\* that rejects its command spawns nothing.
C1_SpawnOnlyAfterValidation ==
  /\ call.spawned # <<>> =>
       /\ ~MatchesInjection(call.command)
       /\ Trim(call.command) # ""
       /\ BaseCommand(call.command) \in DEFAULT_ALLOWED_COMMANDS
       /\ ~MatchesBlocklist(call.command)
  /\ call.outcome = "threw" => call.spawned = <<>>

\* a proposed command was executed in the turn loop, its result appended
C1_Witness ==
  /\ call.outcome = "returned"
  /\ call.spawned # <<>>
  /\ Len(_messages) > 0
  /\ _messages[Len(_messages)].role = "tool"

\* C2 as stated: "rm -rf /" is rejected with the blocked-patterns verdict
\* and nothing is spawned.
C2_Original ==
  Called /\ call.command = "rm -rf /" =>
    /\ call.outcome = "threw"
    /\ call.error = BlockedPattern
    /\ call.spawned = <<>>

\* C2 amended: "rm -rf /" is rejected with the not-in-allowlist verdict
\* (rm is not an allowlist entry and the allowlist is consulted first) and
\* nothing is spawned.
C2_RmRfNotInAllowlist ==
  Called /\ call.command = "rm -rf /" =>
    /\ call.outcome = "threw"
    /\ call.error = "Command 'rm' is not in the allowlist"
    /\ call.spawned = <<>>

C2_Witness == call.command = "rm -rf /" /\ call.outcome = "threw"

\* C3 as stated: for a command whose base token is not an allowlist entry,
\* validateCommand returns the not-in-allowlist verdict, whatever else the
\* command matches.
C3_Original ==
  Called /\ BaseCommand(call.command) \notin DEFAULT_ALLOWED_COMMANDS =>
    validateCommand(call.command) = NotInAllowlist(call.command)

\* C3 amended: for a command that is not empty after trimming and whose
\* base token is not an allowlist entry, validateCommand returns the
\* not-in-allowlist verdict whether or not the command matches a blocklist or
\* an injection pattern, and execBashCommand rejects the command: with that
\* verdict when no injection pattern matches, with the injection verdict
\* otherwise.
C3_NotInAllowlistUnlessEmpty ==
  Called /\ Trim(call.command) # ""
         /\ BaseCommand(call.command) \notin DEFAULT_ALLOWED_COMMANDS =>
    /\ validateCommand(call.command) = NotInAllowlist(call.command)
    /\ call.outcome = "threw"
    /\ call.error = IF MatchesInjection(call.command) THEN InjectionPattern
                    ELSE NotInAllowlist(call.command)

\* a command outside the allowlist that also matches the blocklist
C3_Witness ==
  /\ call.outcome = "threw"
  /\ BaseCommand(call.command) \notin DEFAULT_ALLOWED_COMMANDS
  /\ MatchesBlocklist(call.command)
  /\ call.error = NotInAllowlist(call.command)

\* C4: a command that matches at least one blocklist pattern anywhere in
\* its raw string is rejected and nothing is spawned, also when its base
\* token is allowlisted.
C4_BlocklistMatchRejected ==
  Called /\ MatchesBlocklist(call.command) =>
    /\ call.outcome = "threw"
    /\ call.spawned = <<>>

\* an allowlisted base token, no injection pattern, rejected for the blocklist
C4_Witness ==
  /\ call.outcome = "threw"
  /\ BaseCommand(call.command) \in DEFAULT_ALLOWED_COMMANDS
  /\ ~MatchesInjection(call.command)
  /\ call.error = BlockedPattern

DangerousWords == {"rm", "sudo", "chmod", "chown"}

\* C5: no accepted command has rm, sudo, chmod or chown as a word, in any
\* position.
C5_NoDangerousWordAccepted ==
  call.outcome = "returned" =>
    \A w \in DangerousWords : ~Test(Word(w), call.command)

ComposedCommands == {
  "cat file | grep pattern | wc -l", "echo hi > out.txt", "echo hi >> out.txt",
  "ls && pwd", "ls || pwd" }

\* C6: with allowPipesAndRedirects = TRUE a command that composes
\* allowlisted commands with a pipe, a redirection, && or || is accepted
\* and executed.
C6_ComposedCommandsAccepted ==
  Called /\ allowPipesAndRedirects /\ call.command \in ComposedCommands =>
    /\ call.outcome = "returned"
    /\ call.spawned # <<>>

\* C7: for a validated command that is not a directory change and runs to
\* completion, the exitCode of the result is the exit status of the command.
C7_ExitCodeIsCommandStatus ==
  call.path = "wrapper" /\ call.run.kind = "ran" =>
    call.result.exitCode = call.run.st

\* the stream the shell writes for a completed run
StreamOf(run) == run.out \o SENTINEL \o "\n" \o run.dir \o "\n"

\* the sentinel text occurs in the stream at the appended marker only
SentinelOnce(stream) ==
  LET i == IndexOf(stream, SENTINEL, 1)
  IN  i # 0 /\ IndexOf(stream, SENTINEL, i + 1) = 0

\* the stdout reported for a command's own output: trimmed, and replaced by
\* the no-output message when nothing is left
ReportedStdout(out) == IF Trim(out) = "" THEN NoOutputMessage ELSE Trim(out)

\* C8 as stated: after any completed command that is not a directory change
\* the returned stdout is the command's own output and the committed working
\* directory is the one pwd printed, for every output.
C8_Original ==
  call.path = "wrapper" /\ call.run.kind = "ran" =>
    /\ call.result.stdout = ReportedStdout(call.run.out)
    /\ call.cwdAfter = call.run.dir

\* C8 amended: the same, for every output such that the sentinel text
\* occurs in the captured stream at the appended marker only (stdout is the
\* command's output trimmed, or the no-output message when that is empty).
C8_SentinelRoundTrip ==
  call.path = "wrapper" /\ call.run.kind = "ran" /\ SentinelOnce(StreamOf(call.run)) =>
    /\ call.result.stdout = ReportedStdout(call.run.out)
    /\ call.cwdAfter = call.run.dir
    /\ call.result.cwd = call.run.dir

\* a completed command that wrote output and moved the shell
C8_Witness ==
  /\ call.path = "wrapper"
  /\ call.run.kind = "ran"
  /\ call.run.out # ""
  /\ SentinelOnce(StreamOf(call.run))
  /\ call.run.dir # call.cwdBefore
  /\ call.cwdAfter = call.run.dir

C10_TimeoutExplained ==
  Called /\ call.run.kind = "timeout" =>
    /\ call.result.exitCode # 0
    /\ call.result.stderr # ""
    /\ call.cwdAfter = call.cwdBefore

\* a run in which the process of the command could not be started: the
\* shell itself (spawn error) or the binary the shell looks for (status 127)
ProcessFailure(run) ==
  \/ run.kind \in {"spawnfail", "spawnfail_nostreams"}
  \/ run.kind = "ran" /\ run.st = 127

\* C11: every process-level failure of a validated command is returned,
\* never thrown, as a result with exitCode >= 1 and the error text in stderr.
C11_ProcessFailureReported ==
  Called /\ ProcessFailure(call.run) =>
    /\ call.outcome = "returned"
    /\ call.result.exitCode >= 1
    /\ call.result.stderr # ""

QueryDone == qpc \in {"returned", "threw"}

\* the provider's k-th call fails with the HTTP status n
FailsWithStatus(k, n) ==
  script[k].t = "error" /\ script[k].error.status = Some(n)

\* C12: when the provider's first two calls fail with HTTP 503 and the
\* third succeeds, query returns the response after exactly 3 provider
\* calls, having slept between the attempts with strictly increasing delays.
C12_RetryAfter503 ==
  QueryDone /\ FailsWithStatus(1, 503) /\ FailsWithStatus(2, 503) /\ script[3].t = "ok" =>
    /\ qpc = "returned"
    /\ calls = 3
    /\ Len(sleeps) = 2
    /\ sleeps[1] < sleeps[2]

\* the failures the client is to retry
TransientKinds == {"connection", "timeout", "rate_limit", "server"}

\* C13: while attempts remain, query makes a further provider call after a
\* failed one if and only if the failure was a connection failure, a
\* timeout, a rate limit or a 5xx; any other failure ends the query after
\* that one provider call.
C13_RetryIffTransient ==
  \A k \in 1..(_maxRetries - 1) :
    QueryDone /\ calls >= k /\ script[k].t = "error" =>
      (calls > k <=> script[k].error.kind \in TransientKinds)

\* C14: when query throws and the last provider error had an HTTP status,
\* the LLMError thrown has that status as its statusCode and holds the
\* message of that error.
C14_StatusCarried ==
  qpc = "threw" /\ script[calls].t = "error" /\ script[calls].error.status # None =>
    /\ thrown.statusCode = script[calls].error.status
    /\ Includes(thrown.message, script[calls].error.message)

\* what C15 requires of every state
C15_Bounded ==
  /\ calls <= 3
  /\ Len(sleeps) <= 2
  /\ \A k \in DOMAIN sleeps : sleeps[k] = 1000 * 2^(k - 1)
  /\ QueryDone => Len(sleeps) = calls - 1
  /\ qpc = "returned" => thrown = NoError
  /\ qpc = "threw" => thrown.name = "LLMError"

\* C15: every call of query ends, after at most 3 provider calls, with
\* exactly one outcome (it returned, or it threw one LLMError, and nothing
\* happens after that); the sleep before attempt k+1 is 1000 * 2^(k-1) ms
\* and no sleep follows the last attempt.
C15_QueryTerminates ==
  /\ []C15_Bounded
  /\ [][~QueryDone]_vars
  /\ <>QueryDone

\* a query that used all its attempts, with both sleeps
C15_Witness ==
  /\ qpc = "threw"
  /\ calls = 3
  /\ sleeps = <<1000, 2000>>

\* the retained messages that were appended (the trim marker is the only
\* system-role message of _messages)
IsMarker(m) == m.role = "system"
IsOriginal(m) == m.role # "system"
RetainedOriginals(msgs) == SelectSeq(msgs, IsOriginal)

\* C16: after every append the retained history, trim marker included, is
\* not longer than the configured maximum, whatever the maximum.
C16_HistoryBounded == Len(_messages) <= _maxMessages

\* an append step, the history as it is after the push and before the
\* trimming, and the number of messages trimming has to remove
IsAppend == history' # history
Pushed == Append(_messages, history'[Len(history')])
Excess == Len(Pushed) - _maxMessages

\* the 1-based positions, at or after the forced cutoff, of user messages
UsersFromCutoff == {i \in (Excess + 1)..Len(Pushed) : Pushed[i].role = "user"}

\* C17: when an append makes trimming remove messages and a user message
\* exists at or after the forced cutoff point, the retained original
\* messages start at the first such user message: the removed prefix is the
\* smallest one that leaves a user message first.
C17_SmallestPrefixToUser ==
  [][IsAppend /\ Excess > 0 /\ UsersFromCutoff # {} =>
       RetainedOriginals(_messages') = SubSeq(Pushed, SetMin(UsersFromCutoff), Len(Pushed))]_vars

\* C18: when an append makes trimming remove at least one message, the
\* resulting history has a system-role trim marker as its first element.
C18_MarkerAfterTrim ==
  [][IsAppend /\ Excess > 0 =>
       Len(_messages') > 0 /\ IsMarker(_messages'[1])]_vars

\* s is a suffix of t
IsSuffix(s, t) ==
  Len(s) <= Len(t) /\ SubSeq(t, Len(t) - Len(s) + 1, Len(t)) = s

\* C19: getMessages is the system message, when one is set, followed by the
\* retained history; the retained original messages are a suffix of the
\* appended messages, in their order, and a marker only stands first.
C19_SuffixInOrder ==
  /\ _systemMessage # None =>
       /\ Len(getMessages) = Len(_messages) + 1
       /\ getMessages[1].role = "system"
       /\ getMessages[1].content = _systemMessage[1]
       /\ Tail(getMessages) = _messages
  /\ _systemMessage = None => getMessages = _messages
  /\ IsSuffix(RetainedOriginals(_messages), history)
  /\ \A i \in 2..Len(_messages) : IsOriginal(_messages[i])

\* a manager with a system message whose history was trimmed and marked
C19_Witness ==
  /\ _systemMessage # None
  /\ Len(_messages) >= 2
  /\ IsMarker(_messages[1])
  /\ Len(RetainedOriginals(_messages)) < Len(history)

\* C20: each tool message of a conversation refers to a tool call listed
\* by an assistant message appended before it.
C20_ToolCallIdEmitted ==
  \A i \in DOMAIN history :
    history[i].role = "tool" =>
      \E j \in 1..(i - 1) :
        /\ history[j].role = "assistant"
        /\ \E k \in DOMAIN history[j].tool_calls :
             history[j].tool_calls[k].id = history[i].tool_call_id

-----------------------------------------------------------------------------
(* The turn loop                                                           *)

\* the last message appended to the conversation
LastAppended == history[Len(history)]

\* a step of _handleToolCalls that handles the first pending proposal
HandlesProposal == pc = "tools" /\ pending' # pending

\* C21: within a user turn, when the tool results of a provider response
\* have been appended the provider is queried again: the step that appends
\* the result of the last proposal of a response leads to a new query, not
\* to the prompt for the next user input.
C21_QueriedAgainAfterToolResults ==
  [][(HandlesProposal /\ Len(pending) = 1 /\ Len(history') > Len(history))
       => pc' = "query"]_vars

\* C22: the proposals of a response are handled one at a time in the order
\* they were emitted, and each of them receives exactly one tool message
\* carrying its id before the next one is started, whatever its arguments
\* text: every step that handles a proposal handles the first pending one,
\* appends one tool message with its id and leaves the others pending.
C22_OneResultPerProposal ==
  [][HandlesProposal =>
       /\ pending' = Tail(pending)
       /\ history' = Append(history, history'[Len(history')])
       /\ history'[Len(history')].role = "tool"
       /\ history'[Len(history')].tool_call_id = Head(pending).id]_vars

\* the tool message that answers a proposal for an unknown function
UnknownFunction(toolCall) ==
  Message("tool", "Unknown function: " \o toolCall.name, toolCall.id)

\* C23: a proposal whose function name is not exec_bash_command is never
\* executed: the step that handles it calls no command and leaves the
\* working directory alone, appends the tool message 'Unknown function: ...'
\* for its id, and goes on with the next proposal of the response.
C23_UnknownFunctionRejected ==
  [][(HandlesProposal /\ Head(pending).name # "exec_bash_command") =>
       /\ call' = call
       /\ _cwd' = _cwd
       /\ history' = Append(history, UnknownFunction(Head(pending)))
       /\ _messages'[Len(_messages')] = UnknownFunction(Head(pending))
       /\ pending' = Tail(pending)
       /\ pc' = IF Tail(pending) # <<>> THEN "tools" ELSE "prompt"]_vars

\* an unknown function was answered and the proposal after it was handled too
C23_Witness ==
  \E i \in 1..(Len(history) - 1) :
    /\ history[i] = Message("tool", "Unknown function: read_file", "call_1")
    /\ history[i + 1].role = "tool"
    /\ history[i + 1].tool_call_id = "call_2"

\* the command of a proposal for exec_bash_command whose arguments parse
CommandOf(toolCall) == Coalesce(ParseArguments(toolCall.arguments).cmd, "")

\* the proposal is for exec_bash_command and its arguments text parses
Parses(toolCall) ==
  /\ toolCall.name = "exec_bash_command"
  /\ ~ParseArguments(toolCall.arguments).threw

\* C24: a proposal whose command fails validation (it is empty, its base
\* token is not in the allowlist, or it matches a blocked or an injection
\* pattern) is answered with one tool message for its id that carries the
\* rejection reason (or, when the user declined it at the prompt, the
\* cancellation), nothing is spawned for it, the command is not run again,
\* and the handling goes on with the next proposal.
C24_ValidationFailureReported ==
  [][(HandlesProposal /\ Parses(Head(pending))
        /\ (CommandOf(Head(pending)) = "" \/ ChecksOf[CommandOf(Head(pending))] # "")) =>
       /\ pending' = Tail(pending)
       /\ pc' = IF Tail(pending) # <<>> THEN "tools" ELSE "prompt"
       /\ history' = Append(history, LastAppended')
       /\ LastAppended'.role = "tool"
       /\ LastAppended'.tool_call_id = Head(pending).id
       /\ _messages'[Len(_messages')] = LastAppended'
       /\ _cwd' = _cwd
       /\ call' = call \/ (call'.command = CommandOf(Head(pending)) /\ call'.spawned = <<>>)
       /\ \/ CommandOf(Head(pending)) = "" /\ LastAppended'.content = "No command provided"
          \/ /\ CommandOf(Head(pending)) # ""
             /\ call'.outcome = "threw"
             /\ Includes(LastAppended'.content, ChecksOf[CommandOf(Head(pending))])
          \/ ~auto /\ call' = call /\ LastAppended'.content = "Command cancelled by user"]_vars

\* a command outside the allowlist was proposed first and rejected with its
\* reason, and the second proposal of the response was answered after it
C24_Witness ==
  \E i \in 1..(Len(history) - 1) :
    /\ history[i].role = "tool"
    /\ history[i].tool_call_id = "call_1"
    /\ Includes(history[i].content, NotInAllowlist("rm -rf /"))
    /\ history[i + 1].role = "tool"
    /\ history[i + 1].tool_call_id = "call_2"

\* the user answered y to the confirmation prompt
AnsweredYes == confirm # None /\ Trim(confirm[1]) \in {"y", "Y"}

C26_NonInteractiveNotAsked == nonInteractive => confirm = None

-----------------------------------------------------------------------------
(* Command parser                                                          *)

RECURSIVE OpenQuote(_, _)
\* the quote character that is open after the first i characters of s
OpenQuote(s, i) ==
  IF i = 0 THEN ""
  ELSE LET before == OpenQuote(s, i - 1)
           c      == Ch(s, i)
       IN  IF before = "" THEN (IF c \in Quotes THEN c ELSE "")
           ELSE IF c = before THEN "" ELSE before

\* every quote of s is closed by a matching one
QuotesMatch(s) == OpenQuote(s, Len(s)) = ""

\* character i of s opens or closes a quoted span
IsQuoteMark(s, i) ==
  Ch(s, i) \in Quotes /\ OpenQuote(s, i - 1) \in {"", Ch(s, i)}

\* character i of s is a space outside every quoted span
IsSeparator(s, i) == Ch(s, i) = " " /\ OpenQuote(s, i - 1) = ""

RECURSIVE Unquoted(_, _, _)
\* characters a..b of s without the quote marks
Unquoted(s, a, b) ==
  IF a > b THEN ""
  ELSE (IF IsQuoteMark(s, a) THEN "" ELSE Ch(s, a)) \o Unquoted(s, a + 1, b)

RECURSIVE WordsAfter(_, _)
\* the words of s after position a, a separator or 0: each is a maximal
\* stretch without a separator, its quote marks removed, when that is not empty
WordsAfter(s, a) ==
  IF a >= Len(s) THEN <<>>
  ELSE LET b    == SetMin({j \in (a + 1)..(Len(s) + 1) : j = Len(s) + 1 \/ IsSeparator(s, j)})
           word == Unquoted(s, a + 1, b - 1)
       IN  (IF word = "" THEN <<>> ELSE <<word>>) \o WordsAfter(s, b)

\* C27: parseCommandArgs returns the words of a command in order: for every
\* command whose quotes match, the stretches between the spaces that are
\* outside quotes, with the quote marks removed and the spaces inside quotes
\* kept; 'echo "hello world"' gives ["echo", "hello world"] and 'ls -la'
\* gives ["ls", "-la"].
C27_WordsInOrder ==
  parseArgs # None =>
    /\ QuotesMatch(parseInput) => parseArgs[1] = WordsAfter(parseInput, 0)
    /\ parseInput = "echo \"hello world\"" => parseArgs[1] = <<"echo", "hello world">>
    /\ parseInput = "ls -la" => parseArgs[1] = <<"ls", "-la">>

\* the quoted command of the repository's test has been parsed
C27_Witness ==
  /\ parseInput = "echo \"hello world\""
  /\ parseArgs = Some(<<"echo", "hello world">>)

-----------------------------------------------------------------------------
(* Connectivity probe                                                      *)

\* C28: testConnection returns true when the provider answers the probe
\* request and false when the request fails, and the conversation is the
\* same before and after the call.
C28_ProbeReportsAnswer ==
  [][connected' # connected =>
       /\ connected' = Some(probe'.t # "error")
       /\ _messages' = _messages
       /\ history' = history]_vars

-----------------------------------------------------------------------------
(* Tool-result payload                                                     *)

RECURSIVE StringEnd(_, _)
\* the index of the quote that closes the JSON string whose characters
\* start at index j of text; 0 when there is none
StringEnd(text, j) ==
  IF j > Len(text) THEN 0
  ELSE IF Ch(text, j) = "\"" THEN j
  ELSE IF Ch(text, j) = "\\" THEN StringEnd(text, j + 2)
  ELSE StringEnd(text, j + 1)

\* text has the literal lit at index i
HasAt(text, i, lit) ==
  /\ i >= 1
  /\ i + Len(lit) - 1 <= Len(text)
  /\ SubSeq(text, i, i + Len(lit) - 1) = lit

RECURSIVE ParseNat(_)
\* the number written by a string of digits
ParseNat(digits) ==
  IF digits = "" THEN 0
  ELSE 10 * ParseNat(SubSeq(digits, 1, Len(digits) - 1))
         + (IndexOf("0123456789", Ch(digits, Len(digits)), 1) - 1)

\* the member `"name":"..."` read at index i of text, preceded by lead:
\* its value and the index after it; next is 0 when it is not there
StringMember(text, i, lead, name) ==
  LET key == lead \o "\"" \o name \o "\":\""
      e   == IF i > 0 /\ HasAt(text, i, key) THEN StringEnd(text, i + Len(key)) ELSE 0
  IN  IF e = 0 THEN [value |-> "", next |-> 0]
      ELSE [value |-> JsonUnescape(SubSeq(text, i + Len(key), e - 1)), next |-> e + 1]

\* JSON.parse of a tool-result payload: the object {stdout, stderr, cwd,
\* exitCode} that text is, or None when text is not such an object
ParseResultObject(text) ==
  LET out  == StringMember(text, 1, "{", "stdout")
      err  == StringMember(text, out.next, ",", "stderr")
      cwd  == StringMember(text, err.next, ",", "cwd")
      key  == ",\"exitCode\":"
      from == cwd.next + Len(key)
      num  == SubSeq(text, from, Len(text) - 1)
  IN  IF /\ cwd.next > 0
         /\ HasAt(text, cwd.next, key)
         /\ Len(text) > from
         /\ Ch(text, Len(text)) = "}"
         /\ \A k \in 1..Len(num) : Ch(num, k) \in Digit
      THEN Some(Result(out.value, err.value, cwd.value, ParseNat(num)))
      ELSE None

\* the claim as stated: the content of every tool message appended for an
\* exec_bash_command proposal is an object {stdout, stderr, cwd, exitCode}
C29_Original ==
  [][(HandlesProposal /\ Head(pending).name = "exec_bash_command" /\ history' # history)
       => ParseResultObject(LastAppended'.content) # None]_vars

\* C29: the content of the tool message appended for a proposal whose
\* command was run by execBashCommand and returned a result is the JSON
\* object {stdout, stderr, cwd, exitCode} of that result; a proposal without
\* a command, a declined one and a rejected one are answered with plain text.
C29_ExecutedResultIsObject ==
  [][(HandlesProposal /\ Parses(Head(pending)) /\ history' # history) =>
       IF /\ CommandOf(Head(pending)) # ""
          /\ ChecksOf[CommandOf(Head(pending))] = ""
          /\ auto \/ AnsweredYes'
       THEN /\ call'.outcome = "returned"
            /\ ParseResultObject(LastAppended'.content)
                 = Some(Result(call'.result.stdout, call'.result.stderr,
                               call'.result.cwd, call'.result.exitCode))
       ELSE ParseResultObject(LastAppended'.content) = None]_vars

\* a command was run and its result, with output, was appended as an object
C29_Witness ==
  /\ history # <<>>
  /\ LastAppended.role = "tool"
  /\ call.outcome = "returned"
  /\ call.result.stdout # ""
  /\ ParseResultObject(LastAppended.content)
       = Some(Result(call.result.stdout, call.result.stderr, call.result.cwd,
                     call.result.exitCode))

-----------------------------------------------------------------------------
(* Working directory                                                       *)

\* the step is the commit of the pwd of the initialization task
InitCommit == initPc = "pwd" /\ initPc' = "done" /\ call' = call

\* the step ran a wrapped command whose shell line ran to its end, and left
\* the executor in the directory the call reports
WrapperCompleted ==
  /\ call'.outcome = "returned"
  /\ call'.path = "wrapper"
  /\ call'.run.kind = "ran"
  /\ call'.cwdBefore = _cwd
  /\ call'.cwdAfter = _cwd'

\* the step resolved a cd command to a directory that exists
CdResolved ==
  /\ call'.outcome = "returned"
  /\ call'.path = "cd"
  /\ call'.result.exitCode = 0
  /\ call'.cwdBefore = _cwd
  /\ call'.cwdAfter = _cwd'

\* C30: the working directory changes only as the result of an execution
\* that completed successfully or of a cd command resolved to an existing
\* directory (the pwd of the initialization included): a rejected command, a
\* declined or unknown proposal, a timeout, a failed execution -- a shell
\* that cannot be started, a command that ends with a status other than 0 --
\* and a provider failure leave it unchanged.
C30_CwdChangesOnlyOnSuccess ==
  [][_cwd' # _cwd =>
       \/ InitCommit
       \/ WrapperCompleted /\ call'.run.st = 0
       \/ CdResolved]_vars

-----------------------------------------------------------------------------
(* The initialization task and the calls of execBashCommand                *)

\* the working directory is the one the last call of execBashCommand
\* committed, and that call changed it
CommittedByCall ==
  /\ call.outcome = "returned"
  /\ call.cwdAfter # call.cwdBefore
  /\ _cwd = call.cwdAfter

\* a step of the constructor's initializeWorkingDirectory task
InitTaskStep == initPc' # initPc

\* C31: a working directory committed by execBashCommand is never overwritten
\* by the un-awaited initialization task, whatever the interleaving of the
\* task with the calls.
C31_InitNeverOverwritesCommit ==
  [][CommittedByCall /\ InitTaskStep => _cwd' = _cwd]_vars

-----------------------------------------------------------------------------
(* The text reported for a silent command                                  *)

\* the last call ran a command to its end on the wrapper path
RanToEnd ==
  /\ call.outcome = "returned"
  /\ call.path = "wrapper"
  /\ call.run.kind = "ran"

\* C32: the text 'Command executed successfully, without any output.'
\* replaces stdout exactly when the command wrote neither stdout nor stderr;
\* when it wrote to stderr only, stdout is reported as the empty string.
C32_NoOutputTextIffSilent ==
  RanToEnd =>
    /\ call.result.stdout = NoOutputMessage
         <=> (call.run.out = "" /\ call.run.err = "")
    /\ (call.run.out = "" /\ call.run.err # "" => call.result.stdout = "")

-----------------------------------------------------------------------------
(* Targets of the directory-change path                                    *)

\* the directory a target names when the home-directory shorthand is
\* supported: ~ and ~/rest are taken from the home directory
ShorthandTarget(path, cwd) ==
  IF path = "~" THEN HomeDir
  ELSE IF StartsWith(path, "~/") THEN resolve(HomeDir, SubSeq(path, 3, Len(path)))
  ELSE IF isAbsolute(path) THEN resolve(path, "")
  ELSE resolve(cwd, path)

\* C33: the directory-change path resolves ~ and every target that begins
\* with ~/ under the home directory, an absolute target to itself and every
\* other target relative to the working directory (the target - , which the
\* code leaves unimplemented on purpose, aside).
C33_HomeShorthandResolved ==
  call.path = "cd" /\ extractDirectoryPath(call.command) # "-" =>
    call.target = ShorthandTarget(extractDirectoryPath(call.command), call.cwdBefore)

-----------------------------------------------------------------------------
(* The two ways of changing directory                                      *)

\* the directory the shell moves to for the cd command of the
\* directory-change path, started in cwd
ShellTarget(command, cwd) == ShorthandTarget(extractDirectoryPath(command), cwd)

\* the last call took the directory-change path for a target the shell finds,
\* and the probe was answered
CdToExisting ==
  /\ call.path = "cd"
  /\ call.run.kind \in {"ok", "exit1"}
  /\ extractDirectoryPath(call.command) # "-"
  /\ ShellTarget(call.command, call.cwdBefore) \in ExistingDirs

\* the last call ran a command that moved the shell on the sentinel path
MovedOnSentinelPath ==
  /\ RanToEnd
  /\ ChangesDirectory(call.command)
  /\ SentinelOnce(StreamOf(call.run))
  /\ call.run.dir \in ExistingDirs

\* C34: a change of directory to an existing target leaves the same working
\* directory on both paths, the target: the dedicated path commits the
\* directory the shell would move to, and the sentinel path commits the
\* directory the shell moved to.
C34_BothPathsLeaveTarget ==
  /\ CdToExisting => call.cwdAfter = ShellTarget(call.command, call.cwdBefore)
  /\ MovedOnSentinelPath => call.cwdAfter = call.run.dir

-----------------------------------------------------------------------------
(* The trim marker                                                         *)

\* an append step whose trimming put a marker first
Marked == IsAppend /\ Excess > 0 /\ Len(_messages') > 0 /\ IsMarker(_messages'[1])

\* the number of messages of the pushed history that the step removed
Removed == Len(Pushed) - (Len(_messages') - 1)

\* C35: the number a trim marker announces is the number of messages the
\* trimming removed from the history.
C35_MarkerCountsRemoved ==
  [][Marked => _messages'[1] = TrimMarker(Removed)]_vars

-----------------------------------------------------------------------------
(* The terminal failure of query                                           *)

\* C36: the attempt count in the message of the LLMError query throws is
\* the number of provider calls made for that query: 1 for a fatal error at
\* the first attempt, 3 when the retries were exhausted.
C36_AttemptCountIsCalls ==
  qpc = "threw" =>
    StartsWith(thrown.message,
               "LLM query failed after " \o ToString(calls) \o " attempts: ")

-----------------------------------------------------------------------------
(* Whitespace in the command parser                                        *)

WhitespaceChars == {" ", "\t", "\n"}

RECURSIVE Joined(_)
\* the tokens one after the other
Joined(args) == IF args = <<>> THEN "" ELSE Head(args) \o Joined(Tail(args))

\* how often the character c occurs in s, and how often inside a quoted span
Occurrences(s, c) == Cardinality({i \in 1..Len(s) : Ch(s, i) = c})
QuotedOccurrences(s, c) ==
  Cardinality({i \in 1..Len(s) : Ch(s, i) = c /\ OpenQuote(s, i - 1) # ""})

\* character i of s is one of seps and stands outside every quoted span
Delimits(s, i, seps) == Ch(s, i) \in seps /\ OpenQuote(s, i - 1) = ""

\* the position before the delimiter that follows position i, or the end
StretchEnd(s, i, seps) ==
  SetMin({j \in i..(Len(s) + 1) : j = Len(s) + 1 \/ Delimits(s, j, seps)}) - 1

\* the number of tokens of s when the characters seps delimit: the
\* stretches between delimiters that are not empty without their quote marks
TokenCount(s, seps) ==
  Cardinality({i \in 1..Len(s) :
    /\ ~Delimits(s, i, seps)
    /\ i = 1 \/ Delimits(s, i - 1, seps)
    /\ Unquoted(s, i, StretchEnd(s, i, seps)) # ""})

\* C37 as stated: every space, tab and line break outside quotes ends the
\* current token and is part of no token, and whitespace inside quotes is
\* token content.
C37_Original ==
  parseArgs # None =>
    /\ Len(parseArgs[1]) = TokenCount(parseInput, WhitespaceChars)
    /\ \A c \in WhitespaceChars :
         Occurrences(Joined(parseArgs[1]), c) = QuotedOccurrences(parseInput, c)

\* C37 amended: every space outside quotes ends the current token and is
\* part of no token; a space inside quotes, and a tab or a line break
\* anywhere, is token content.
C37_SpaceDelimits ==
  parseArgs # None =>
    /\ Len(parseArgs[1]) = TokenCount(parseInput, {" "})
    /\ Occurrences(Joined(parseArgs[1]), " ") = QuotedOccurrences(parseInput, " ")
    /\ \A c \in WhitespaceChars \ {" "} :
         Occurrences(Joined(parseArgs[1]), c) = Occurrences(parseInput, c)

\* a command with a tab outside quotes, a tab inside quotes and spaces
\* between its words has been parsed
C37_Witness ==
  /\ parseInput = "printf \"a\tb\" x\ty"
  /\ parseArgs = Some(<<"printf", "a\tb", "x\ty">>)

-----------------------------------------------------------------------------
(* The most recent message                                                 *)

\* C38: after every append, whatever the maximum (1 or more), the message
\* just appended is the last element of the history: trimming never removes
\* the most recent message.
C38_NewestRetained ==
  history # <<>> =>
    /\ _messages # <<>>
    /\ _messages[Len(_messages)] = history[Len(history)]

\* a manager with the maximum 1 that has trimmed: two messages were
\* appended and the second is the last of the history
C38_Witness ==
  /\ _maxMessages = 1
  /\ Len(history) = 2
  /\ Len(RetainedOriginals(_messages)) = 1
  /\ _messages[Len(_messages)] = history[2]

-----------------------------------------------------------------------------
(* Trim markers in the history                                             *)

\* the positions of the history that hold a trim marker
MarkerPositions == {i \in DOMAIN _messages : IsMarker(_messages[i])}

\* C39: in a conversation built by addUserMessage, addAssistantMessage and
\* addToolMessage the history holds at most one trim marker, and a marker
\* is the first element of the history.
C39_OneMarkerFirst ==
  /\ Cardinality(MarkerPositions) <= 1
  /\ MarkerPositions \subseteq {1}

\* a history that was trimmed and marked twice: with the maximum 2, the
\* third and the fourth user message each put a marker first
C39_Witness ==
  /\ _maxMessages = 2
  /\ Len(history) = 4
  /\ \A i \in 1..4 : history[i].role = "user"
  /\ _messages = <<TrimMarker(1), history[4]>>

-----------------------------------------------------------------------------
(* The conversation during a query                                         *)

\* a step of query
QueryStep == qpc' # qpc

\* C40: query does not modify the conversation, whether it returns or
\* throws: every step of it leaves the messages and what getMessages
\* returns as they were; and every provider call of one query is handed the
\* same message list, the conversation as the provider format writes it.
C40_QueryLeavesConversation ==
  [][QueryStep =>
       /\ _messages' = _messages
       /\ getMessages' = getMessages
       /\ sent' # sent =>
            /\ sent' = Append(sent, RequestMessages(getMessages))
            /\ sent'[Len(sent')] = sent'[1]]_vars

\* a query that was retried to the end over a conversation with a tool call:
\* three provider calls were made and the third got the list of the first
C40_Witness ==
  /\ qpc = "threw"
  /\ calls = 3
  /\ Len(sent) = 3
  /\ Len(_messages) = 3
  /\ sent[3] = sent[1]
  /\ Len(sent[1]) = 4
  /\ sent[1][3].tool_calls # <<>>

====
